---- MODULE Spec2Model ----
(***************************************************************************)
(* Project data integrity subsystem of agroecologia-desenhada:             *)
(* the persistence store over localStorage (dataPersistence.ts) and the    *)
(* validators it is specified against (validation utilities).              *)
(*                                                                         *)
(* JavaScript values are tagged records: the field t is the kind of value, *)
(* the other fields are its content.  Objects carry their properties as    *)
(* further record fields; a property that is not there reads as Absent.    *)
(* A thrown exception is an outcome of a call, never a TLC error.          *)
(***************************************************************************)
EXTENDS Integers, Sequences, FiniteSets, TLC

VARIABLES
    localStorage,         \* the key/value substrate: one slot per STORAGE_KEYS entry
    DEFAULT_PREFERENCES,  \* the module-level defaults object (callers can alias it)
    callerRef,            \* what the caller's last UserPreferences reference aliases
    firstPrefs,           \* value returned by the first getUserPreferences since the last saveUserPreferences
    op,                   \* name of the last operation called
    arg,                  \* its argument
    env,                  \* its environment inputs (clock, setItem calls that raise)
    attempted,            \* the writes it attempted, in order
    ret,                  \* what it returned (Thrown when an exception escaped)
    saves,                \* successful saveCurrentProject calls made on the initially empty store
    autoSave,             \* the fields of the one AutoSave instance: interval, projectData
    timers,               \* handles of the periodic timers the host keeps live
    issued,               \* number of handles setInterval has handed out
    ticks,                \* timer callbacks run since the instance was constructed
    invocations,          \* saveCurrentProject calls made by those callbacks
    registered,           \* the project last passed to start or updateProject, and by which
    downloads,            \* documents the last exportProjectAsJSON call handed to the browser
    toast                 \* kind of the last toast shown by the export utilities

autoSaveVars == <<autoSave, timers, issued, ticks, invocations, registered>>

exportVars == <<downloads, toast>>

vars == <<localStorage, DEFAULT_PREFERENCES, callerRef, firstPrefs, op, arg, env, attempted, ret, saves,
          autoSaveVars, exportVars>>

---------------------------------------------------------------------------
(* JavaScript values *)

Absent == [t |-> "absent"]
Undef == [t |-> "undef"]
Null == [t |-> "null"]
NaN == [t |-> "nan"]
Infinity == [t |-> "inf"]
Num(n) == [t |-> "num", n |-> n]
Dec(d) == [t |-> "dec", d |-> d]   \* the number d/10
Str(s) == [t |-> "str", s |-> s]
Bool(b) == [t |-> "bool", b |-> b]
Arr(a) == [t |-> "arr", a |-> a]
Thrown == [t |-> "thrown"]

\* o.f in JavaScript, for o an object: undefined when the property is not there
Get(o, f) == IF f \in DOMAIN o THEN o[f] ELSE Absent

\* o.f = v
Put(o, f, v) == [g \in (DOMAIN o) \cup {f} |-> IF g = f THEN v ELSE o[g]]

\* f in o
HasProp(o, f) == f \in DOMAIN o /\ o[f].t # "absent"

\* typeof v
typeof(v) ==
    CASE v.t \in {"num", "dec", "nan", "inf", "ninf"} -> "number"
      [] v.t = "str" -> "string"
      [] v.t = "bool" -> "boolean"
      [] v.t \in {"undef", "absent"} -> "undefined"
      [] OTHER -> "object"

\* !v
Falsy(v) ==
    \/ v.t \in {"absent", "undef", "null", "nan"}
    \/ v.t = "num" /\ v.n = 0
    \/ v.t = "str" /\ v.s = ""
    \/ v.t = "bool" /\ ~v.b

\* isFinite(v) for v of type number
isFinite(v) == v.t \in {"num", "dec"}

\* a <= n, a < n, a > n for a of type number and n an integer: every comparison with NaN is false
NumLe(a, n) == (a.t = "num" /\ a.n <= n) \/ (a.t = "dec" /\ a.d <= 10 * n) \/ a.t = "ninf"
NumLt(a, n) == (a.t = "num" /\ a.n < n) \/ (a.t = "dec" /\ a.d < 10 * n) \/ a.t = "ninf"
NumGt(a, n) == (a.t = "num" /\ a.n > n) \/ (a.t = "dec" /\ a.d > 10 * n) \/ a.t = "inf"

---------------------------------------------------------------------------
(* JSON.stringify followed by JSON.parse: what a value is once it has been *)
(* written to a slot and read back.  Non-finite numbers become null,       *)
(* undefined properties are dropped, undefined array items become null.    *)

RECURSIVE Stringify(_)
Stringify(v) ==
    CASE v.t \in {"nan", "inf", "ninf"} -> Null
      [] v.t = "arr" ->
            Arr([i \in 1..Len(v.a) |->
                    IF v.a[i].t \in {"undef", "absent"} THEN Null ELSE Stringify(v.a[i])])
      [] v.t = "obj" ->
            LET kept == {f \in DOMAIN v : f = "t" \/ v[f].t \notin {"undef", "absent"}}
            IN  [f \in kept |-> IF f = "t" THEN "obj" ELSE Stringify(v[f])]
      [] OTHER -> v

---------------------------------------------------------------------------
(* The storage substrate *)

STORAGE_KEYS ==
    {"CURRENT_PROJECT", "PROJECT_HISTORY", "USER_PREFERENCES", "LAST_SAVE", "APP_VERSION"}

Missing == [k |-> "missing"]        \* getItem returns null
EmptyText == [k |-> "empty"]        \* the empty string
BadText == [k |-> "text"]           \* text that JSON.parse rejects
Json(v) == [k |-> "json", v |-> v]  \* the JSON text of v

EmptyStore == [key \in STORAGE_KEYS |-> Missing]

\* !localStorage.getItem(key)
NoItem(slot) == slot.k \in {"missing", "empty"}

\* a call's outcome: either a value or a raised exception
Ok(v) == [threw |-> FALSE, val |-> v]
Raise == [threw |-> TRUE, val |-> Undef]

\* JSON.parse(localStorage.getItem(key)) for an item that is there
JSONparse(slot) == IF slot.k = "json" THEN Ok(slot.v) ELSE Raise

---------------------------------------------------------------------------
(* Project structure check *)

requiredFields == <<"version", "timestamp", "canvasSize", "elements", "selectedTool">>

validateProjectData(project) ==
    /\ ~Falsy(project) /\ typeof(project) = "object"
    /\ \A i \in 1..Len(requiredFields) : HasProp(project, requiredFields[i])
    /\ ~Falsy(Get(project, "canvasSize")) /\ typeof(Get(project, "canvasSize")) = "object"
    /\ typeof(Get(project.canvasSize, "width")) = "number"
    /\ typeof(Get(project.canvasSize, "height")) = "number"
    /\ project.elements.t = "arr"
    /\ typeof(project.timestamp) = "number" /\ ~NumLe(project.timestamp, 0)

---------------------------------------------------------------------------
(* Strings that are matched against a pattern or measured: their characters *)

Long101 == "aaaaaaaaaa..(101 characters)"

Chars(s) ==
    CASE s = "1x1m" -> <<"1", "x", "1", "m">>
      [] s = "30x30cm" -> <<"3", "0", "x", "3", "0", "c", "m">>
      [] s = "50cm" -> <<"5", "0", "c", "m">>
      [] s = "2m" -> <<"2", "m">>
      [] s = "0.5m" -> <<"0", ".", "5", "m">>
      [] s = "1x1" -> <<"1", "x", "1">>
      [] s = "0.5x1.5m" -> <<"0", ".", "5", "x", "1", ".", "5", "m">>
      [] s = "1x2cm" -> <<"1", "x", "2", "c", "m">>
      [] s = "1.m" -> <<"1", ".", "m">>
      [] s = "x2m" -> <<"x", "2", "m">>
      [] s = "2 m" -> <<"2", " ", "m">>
      [] s = "#FF6B6B" -> <<"#", "F", "F", "6", "B", "6", "B">>
      [] s = "#8b4513" -> <<"#", "8", "b", "4", "5", "1", "3">>
      [] s = "#GGGGGG" -> <<"#", "G", "G", "G", "G", "G", "G">>
      [] s = "#FFF" -> <<"#", "F", "F", "F">>
      [] s = "FF6B6B0" -> <<"F", "F", "6", "B", "6", "B", "0">>
      [] s = "Tomate" -> <<"T", "o", "m", "a", "t", "e">>
      [] s = "Solo" -> <<"S", "o", "l", "o">>
      [] s = "Galpao" -> <<"G", "a", "l", "p", "a", "o">>
      [] s = "#8B4513" -> <<"#", "8", "B", "4", "5", "1", "3">>
      [] s = "#696969" -> <<"#", "6", "9", "6", "9", "6", "9">>
      [] s = Long101 -> [i \in 1..101 |-> "a"]

Digits == {"0", "1", "2", "3", "4", "5", "6", "7", "8", "9"}
HexDigits == Digits \cup {"A", "B", "C", "D", "E", "F", "a", "b", "c", "d", "e", "f"}

\* cs[i..j-1] matches \d+
IsDigits(cs, i, j) == j > i /\ \A k \in i..(j - 1) : cs[k] \in Digits

\* cs[i..j-1] matches \d+(?:\.\d+)?
IsNumber(cs, i, j) ==
    \/ IsDigits(cs, i, j)
    \/ \E d \in (i + 1)..(j - 2) : IsDigits(cs, i, d) /\ cs[d] = "." /\ IsDigits(cs, d + 1, j)

\* /^(\d+(?:\.\d+)?)(?:x(\d+(?:\.\d+)?))?(cm|m)$/.test(s)
spacingPattern(s) ==
    LET cs == Chars(s)
        n == Len(cs)
        Body(e) == \/ IsNumber(cs, 1, e)
                   \/ \E x \in 2..(e - 2) : IsNumber(cs, 1, x) /\ cs[x] = "x" /\ IsNumber(cs, x + 1, e)
    IN  \/ n >= 2 /\ cs[n] = "m" /\ Body(n)
        \/ n >= 3 /\ cs[n - 1] = "c" /\ cs[n] = "m" /\ Body(n - 1)

\* /^#[0-9A-Fa-f]{6}$/.test(s)
colorPattern(s) ==
    LET cs == Chars(s)
    IN  Len(cs) = 7 /\ cs[1] = "#" /\ \A k \in 2..7 : cs[k] \in HexDigits

---------------------------------------------------------------------------
(* Validators *)

Valid == [isValid |-> TRUE]
Invalid(e) == [isValid |-> FALSE, error |-> e]

\* !v.f || typeof v.f !== 'string'
NotAString(o, f) == Falsy(Get(o, f)) \/ typeof(Get(o, f)) # "string"

validatePlant(plant) ==
    IF Falsy(plant) \/ typeof(plant) # "object" THEN Invalid("Invalid plant data")
    ELSE IF NotAString(plant, "id") THEN Invalid("Plant ID is required and must be a string")
    ELSE IF NotAString(plant, "name") THEN Invalid("Plant name is required and must be a string")
    ELSE IF Len(Chars(plant.name.s)) > 100 THEN Invalid("Plant name must be less than 100 characters")
    ELSE IF NotAString(plant, "spacing") THEN Invalid("Plant spacing is required")
    ELSE IF ~spacingPattern(plant.spacing.s) THEN Invalid("Invalid spacing format. Use formats like 1x1m, 30x30cm, 50cm, or 2m")
    ELSE IF NotAString(plant, "category") THEN Invalid("Plant category is required")
    ELSE IF NotAString(plant, "color") THEN Invalid("Plant color is required")
    ELSE IF ~colorPattern(plant.color.s) THEN Invalid("Plant color must be a valid hex color (e.g., #FF6B6B)")
    ELSE Valid

validateTerrain(terrain) ==
    IF Falsy(terrain) \/ typeof(terrain) # "object" THEN Invalid("Invalid terrain data")
    ELSE IF NotAString(terrain, "id") THEN Invalid("Terrain ID is required and must be a string")
    ELSE IF NotAString(terrain, "name") THEN Invalid("Terrain name is required and must be a string")
    ELSE IF Len(Chars(terrain.name.s)) > 100 THEN Invalid("Terrain name must be less than 100 characters")
    ELSE IF NotAString(terrain, "category") THEN Invalid("Terrain category is required")
    ELSE IF NotAString(terrain, "color") THEN Invalid("Terrain color is required")
    ELSE IF ~colorPattern(terrain.color.s) THEN Invalid("Terrain color must be a valid hex color (e.g., #8B4513)")
    ELSE IF /\ Get(terrain, "brushThickness").t \notin {"undef", "absent"}
            /\ \/ typeof(terrain.brushThickness) # "number"
               \/ NumLt(terrain.brushThickness, 1)
               \/ NumGt(terrain.brushThickness, 100)
         THEN Invalid("Brush thickness must be between 1 and 100 pixels")
    ELSE Valid

\* v < 0.1 for v of type number
LtOneTenth(v) == (v.t = "num" /\ v.n < 1) \/ (v.t = "dec" /\ v.d < 1) \/ v.t = "ninf"

\* typeof v !== 'number' || v < 0.1 || v > 100
BadStructureSide(v) == typeof(v) # "number" \/ LtOneTenth(v) \/ NumGt(v, 100)

validateStructure(structure) ==
    IF Falsy(structure) \/ typeof(structure) # "object" THEN Invalid("Invalid structure data")
    ELSE IF NotAString(structure, "id") THEN Invalid("Structure ID is required and must be a string")
    ELSE IF NotAString(structure, "name") THEN Invalid("Structure name is required and must be a string")
    ELSE IF Len(Chars(structure.name.s)) > 100 THEN Invalid("Structure name must be less than 100 characters")
    ELSE IF NotAString(structure, "category") THEN Invalid("Structure category is required")
    ELSE IF Falsy(Get(structure, "size")) \/ typeof(Get(structure, "size")) # "object"
         THEN Invalid("Structure size is required")
    ELSE IF BadStructureSide(Get(structure.size, "width"))
         THEN Invalid("Structure width must be between 0.1 and 100 meters")
    ELSE IF BadStructureSide(Get(structure.size, "height"))
         THEN Invalid("Structure height must be between 0.1 and 100 meters")
    ELSE IF NotAString(structure, "color") THEN Invalid("Structure color is required")
    ELSE IF ~colorPattern(structure.color.s)
         THEN Invalid("Structure color must be a valid hex color (e.g., #696969)")
    ELSE Valid

validTypes == {"plant", "terrain", "rectangle", "circle"}

\* Math.abs(v) > n for v a finite number
AbsGt(v, n) == NumGt(v, n) \/ NumLt(v, -n)

\* v !== undefined, and then: typeof v !== 'number' || v < 0 || !isFinite(v)
BadDimension(v) ==
    /\ v.t \notin {"undef", "absent"}
    /\ (typeof(v) # "number" \/ NumLt(v, 0) \/ ~isFinite(v))

validateDrawingElement(element) ==
    IF Falsy(element) \/ typeof(element) # "object" THEN Invalid("Invalid element data")
    ELSE IF Falsy(Get(element, "id")) \/ typeof(Get(element, "id")) # "number"
         THEN Invalid("Element ID is required and must be a number")
    ELSE IF NotAString(element, "type") THEN Invalid("Element type is required")
    ELSE IF element.type.s \notin validTypes
         THEN Invalid("Element type must be one of: plant, terrain, rectangle, circle")
    ELSE IF typeof(Get(element, "x")) # "number" \/ ~isFinite(element.x)
         THEN Invalid("Element x position must be a valid number")
    ELSE IF typeof(Get(element, "y")) # "number" \/ ~isFinite(element.y)
         THEN Invalid("Element y position must be a valid number")
    ELSE IF AbsGt(element.x, 100000) \/ AbsGt(element.y, 100000)
         THEN Invalid("Element coordinates are out of reasonable bounds")
    ELSE IF /\ element.type.s = "plant" /\ ~Falsy(Get(element, "plant"))
            /\ ~validatePlant(element.plant).isValid
         THEN validatePlant(element.plant)
    ELSE IF /\ element.type.s = "terrain" /\ ~Falsy(Get(element, "terrain"))
            /\ ~validateTerrain(element.terrain).isValid
         THEN validateTerrain(element.terrain)
    ELSE IF element.type.s \in {"rectangle", "circle", "terrain"} /\ BadDimension(Get(element, "width"))
         THEN Invalid("Element width must be a valid positive number")
    ELSE IF element.type.s \in {"rectangle", "circle", "terrain"} /\ BadDimension(Get(element, "height"))
         THEN Invalid("Element height must be a valid positive number")
    ELSE IF element.type.s \in {"rectangle", "circle", "terrain"} /\ BadDimension(Get(element, "radius"))
         THEN Invalid("Element radius must be a valid positive number")
    ELSE IF /\ Get(element, "rotation").t \notin {"undef", "absent"}
            /\ (typeof(element.rotation) # "number" \/ ~isFinite(element.rotation))
         THEN Invalid("Element rotation must be a valid number")
    ELSE Valid

Size(w, h) == [t |-> "obj", width |-> w, height |-> h]

DEFAULT_VALIDATION_OPTIONS ==
    [t |-> "obj", maxElements |-> Num(1000),
     maxCanvasSize |-> Size(Num(200), Num(200)),
     minCanvasSize |-> Size(Num(1), Num(1))]

\* { ...a, ...b }: the properties of b laid over those of a; spreading a non-object adds nothing
Spread(a, b) ==
    LET own == {g \in (DOMAIN b) \ {"t"} : b[g].t # "absent"}
    IN  IF b.t # "obj" THEN a
        ELSE [f \in (DOMAIN a) \cup own |-> IF f \in own THEN b[f] ELSE a[f]]

\* a < b and a > b for two values, as JavaScript compares numbers (false whenever either is not a finite number here)
JsLt(a, b) == a.t = "num" /\ b.t = "num" /\ a.n < b.n
JsGt(a, b) == a.t = "num" /\ b.t = "num" /\ a.n > b.n

\* reading o.f raises a TypeError
CannotRead(o) == o.t \in {"undef", "absent", "null"}

validateCanvasSize(size, options) ==
    LET opts == Spread(DEFAULT_VALIDATION_OPTIONS, options)
    IN  IF Falsy(size) \/ typeof(size) # "object" THEN Ok(Invalid("Invalid canvas size data"))
        ELSE IF typeof(Get(size, "width")) # "number" \/ ~isFinite(size.width)
             THEN Ok(Invalid("Canvas width must be a valid number"))
        ELSE IF typeof(Get(size, "height")) # "number" \/ ~isFinite(size.height)
             THEN Ok(Invalid("Canvas height must be a valid number"))
        ELSE IF CannotRead(opts.minCanvasSize) THEN Raise
        \* opts.maxCanvasSize.width is read by the comparison or, failing that, by the message
        ELSE IF CannotRead(opts.maxCanvasSize) THEN Raise
        ELSE IF JsLt(size.width, Get(opts.minCanvasSize, "width")) \/ JsGt(size.width, Get(opts.maxCanvasSize, "width"))
             THEN Ok(Invalid("Canvas width must be between min and max meters"))
        ELSE IF JsLt(size.height, Get(opts.minCanvasSize, "height")) \/ JsGt(size.height, Get(opts.maxCanvasSize, "height"))
             THEN Ok(Invalid("Canvas height must be between min and max meters"))
        ELSE Ok(Valid)

\* the least index (from 0) of an element that validateDrawingElement rejects, or -1
FirstInvalid(a) ==
    LET bad == {i \in 1..Len(a) : ~validateDrawingElement(a[i]).isValid}
    IN  IF bad = {} THEN -1 ELSE (CHOOSE i \in bad : \A j \in bad : i <= j) - 1

validateElementsArray(elements, options) ==
    LET opts == Spread(DEFAULT_VALIDATION_OPTIONS, options)
    IN  IF elements.t # "arr" THEN Invalid("Elements must be an array")
        ELSE IF JsGt(Num(Len(elements.a)), opts.maxElements) THEN Invalid("Maximum elements allowed")
        ELSE IF FirstInvalid(elements.a) >= 0
             THEN [isValid |-> FALSE,
                   error |-> validateDrawingElement(elements.a[FirstInvalid(elements.a) + 1]).error,
                   index |-> FirstInvalid(elements.a)]
        ELSE Valid

validateCanvasState(elements, canvasSize, options) ==
    LET sizeValidation == validateCanvasSize(canvasSize, options)
    IN  IF sizeValidation.threw THEN Raise
        ELSE IF ~sizeValidation.val.isValid THEN sizeValidation
        ELSE Ok(validateElementsArray(elements, options))

---------------------------------------------------------------------------
(* Persistence store: pure parts.  ls is the substrate before the call, now *)
(* the clock reading, throws the set of keys whose setItem raises (quota).  *)

HISTORY_LIMIT == 50

\* new Date(ms).toISOString()
toISOString(ms) == [t |-> "str", s |-> "ISO-8601", ms |-> ms]

\* Date.now().toString()
DecimalText(ms) == [k |-> "dec", n |-> ms]

getCurrentProject(ls) ==
    LET projectJson == ls.CURRENT_PROJECT
        project == JSONparse(projectJson)
    IN  IF NoItem(projectJson) THEN Null
        ELSE IF project.threw THEN Null
        ELSE IF ~validateProjectData(project.val) THEN Null
        ELSE project.val

getProjectHistory(ls) ==
    LET historyJson == ls.PROJECT_HISTORY
        parsed == JSONparse(historyJson)
    IN  IF NoItem(historyJson) THEN Arr(<<>>)
        ELSE IF parsed.threw THEN Arr(<<>>)
        ELSE parsed.val

DigitChars == <<"0", "1", "2", "3", "4", "5", "6", "7", "8", "9">>
Letters ==
    <<"a", "b", "c", "d", "e", "f", "g", "h", "i", "j", "k", "l", "m",
      "n", "o", "p", "q", "r", "s", "t", "u", "v", "w", "x", "y", "z">>

\* c.charCodeAt(0), for the characters a data string is made of
charCodeAt(c) ==
    IF \E i \in 1..10 : DigitChars[i] = c THEN 47 + (CHOOSE i \in 1..10 : DigitChars[i] = c)
    ELSE IF \E i \in 1..26 : Letters[i] = c THEN 96 + (CHOOSE i \in 1..26 : Letters[i] = c)
    ELSE CASE c = "\"" -> 34
           [] c = "," -> 44
           [] c = "-" -> 45
           [] c = ":" -> 58
           [] c = "C" -> 67
           [] c = "S" -> 83
           [] c = "{" -> 123
           [] c = "}" -> 125

\* the decimal digits of an integer
RECURSIVE DecimalChars(_)
DecimalChars(n) ==
    IF n < 0 THEN <<"-">> \o DecimalChars(-n)
    ELSE IF n < 10 THEN <<DigitChars[n + 1]>>
    ELSE DecimalChars(n \div 10) \o <<DigitChars[(n % 10) + 1]>>

\* the JSON text of a number: non-finite numbers are written as null
NumberChars(v) == IF v.t = "num" THEN DecimalChars(v.n) ELSE <<"n", "u", "l", "l">>

\* the members of a JSON object text, a comma between them
RECURSIVE JoinMembers(_)
JoinMembers(ms) ==
    IF Len(ms) = 0 THEN <<>>
    ELSE IF Len(ms) = 1 THEN ms[1]
    ELSE ms[1] \o <<",">> \o JoinMembers(Tail(ms))

\* "key":value for a property that is written, nothing for undefined
Member(key, v, text) ==
    IF v.t \in {"undef", "absent"} THEN <<>> ELSE <<<<"\"">> \o key \o <<"\"", ":">> \o text>>

\* JSON.stringify of a canvas size
SizeChars(size) ==
    IF size.t # "obj" THEN <<"n", "u", "l", "l">>
    ELSE <<"{">>
         \o JoinMembers(Member(<<"w", "i", "d", "t", "h">>, Get(size, "width"),
                               NumberChars(Get(size, "width")))
                        \o Member(<<"h", "e", "i", "g", "h", "t">>, Get(size, "height"),
                                  NumberChars(Get(size, "height"))))
         \o <<"}">>

\* the text that is hashed: JSON.stringify({timestamp, canvasSize, elementsCount})
dataString(project) ==
    <<"{">>
    \o JoinMembers(Member(<<"t", "i", "m", "e", "s", "t", "a", "m", "p">>, Get(project, "timestamp"),
                          NumberChars(Get(project, "timestamp")))
                   \o Member(<<"c", "a", "n", "v", "a", "s", "S", "i", "z", "e">>,
                             Get(project, "canvasSize"), SizeChars(Get(project, "canvasSize")))
                   \o Member(<<"e", "l", "e", "m", "e", "n", "t", "s", "C", "o", "u", "n", "t">>,
                             Num(Len(project.elements.a)),
                             DecimalChars(Len(project.elements.a))))
    \o <<"}">>

\* hash = ((hash << 5) - hash) + char; hash = hash & hash: 31 * hash + char in
\* 32 bits, held as two 16-bit halves
RECURSIVE HashFrom(_, _, _, _)
HashFrom(hi, lo, cs, i) ==
    IF i > Len(cs) THEN [hi |-> hi, lo |-> lo]
    ELSE LET low == 31 * lo + charCodeAt(cs[i])
             high == 31 * hi + (low \div 65536)
         IN  IF low >= 0 /\ high >= 0
             THEN HashFrom(high % 65536, low % 65536, cs, i + 1)
             ELSE [hi |-> hi, lo |-> lo]

\* the number of base-36 digits, most significant first
RECURSIVE Base36(_)
Base36(n) ==
    LET Digit(d) == IF d < 10 THEN DigitChars[d + 1] ELSE Letters[d - 9]
    IN  IF n < 36 THEN <<Digit(n)>> ELSE Base36(n \div 36) \o <<Digit(n % 36)>>

\* Math.abs(hash).toString(36) for the 32-bit signed value of the two halves
AbsBase36(h) ==
    IF h.hi = 32768 /\ h.lo = 0 THEN <<"z", "i", "k", "0", "z", "k">>
    ELSE IF h.hi >= 32768 THEN Base36(-((h.hi - 65536) * 65536 + h.lo))
    ELSE Base36(h.hi * 65536 + h.lo)

generateProjectId(project) ==
    IF CannotRead(project) THEN Raise
    ELSE IF CannotRead(Get(project, "elements")) THEN Raise
    ELSE Ok([t |-> "str", s |-> "base36",
             digits |-> AbsBase36(HashFrom(0, 0, dataString(project), 1))])

generateProjectName(project) == [t |-> "str", s |-> "Projeto", at |-> project.timestamp]

addToProjectHistory(ls, project, throws) ==
    LET history == getProjectHistory(ls)
        id == generateProjectId(Undef)
        historyEntry == [t |-> "obj", id |-> id.val, name |-> generateProjectName(project),
                         timestamp |-> project.timestamp,
                         lastModified |-> project.lastModified,
                         canvasSize |-> project.canvasSize,
                         elementsCount |-> Num(Len(project.elements.a)),
                         tags |-> Get(project.metadata, "tags")]
        unshifted == <<historyEntry>> \o history.a
        spliced == IF Len(unshifted) > HISTORY_LIMIT THEN SubSeq(unshifted, 1, HISTORY_LIMIT) ELSE unshifted
    IN  IF id.threw THEN ls
        ELSE IF history.t # "arr" THEN ls
        ELSE IF "PROJECT_HISTORY" \in throws THEN ls
        ELSE [ls EXCEPT !.PROJECT_HISTORY = Json(Stringify(Arr(spliced)))]

\* assigning o.f raises a TypeError: o is undefined or null, or (strict mode) a primitive
CannotAssign(o) == o.t \notin {"obj", "arr"}

\* saveCurrentProject that trusts the caller's metadata.elementsCount
saveCurrentProject_trustsCount(ls, project, now, throws) ==
    IF ~validateProjectData(project)
    THEN [ret |-> FALSE, ls |-> ls, project |-> project, attempted |-> <<>>]
    ELSE
      LET p1 == Put(project, "lastModified", toISOString(now))
          ls1 == [ls EXCEPT !.CURRENT_PROJECT = Json(Stringify(p1))]
          ls2 == [ls1 EXCEPT !.LAST_SAVE = DecimalText(now)]
      IN  IF CannotAssign(Get(p1, "metadata"))
          THEN [ret |-> FALSE, ls |-> ls, project |-> p1, attempted |-> <<>>]
          ELSE IF "CURRENT_PROJECT" \in throws
          THEN [ret |-> FALSE, ls |-> ls, project |-> p1, attempted |-> <<"CURRENT_PROJECT">>]
          ELSE IF "LAST_SAVE" \in throws
          THEN [ret |-> FALSE, ls |-> ls1, project |-> p1,
                attempted |-> <<"CURRENT_PROJECT", "LAST_SAVE">>]
          ELSE [ret |-> TRUE, ls |-> addToProjectHistory(ls2, p1, throws), project |-> p1,
                attempted |-> <<"CURRENT_PROJECT", "LAST_SAVE", "addToProjectHistory">>]

\* the result, the substrate afterwards, the (mutated) argument and the writes attempted
saveCurrentProject(ls, project, now, throws) ==
    IF ~validateProjectData(project)
    THEN [ret |-> FALSE, ls |-> ls, project |-> project, attempted |-> <<>>]
    ELSE
      LET p1 == Put(project, "lastModified", toISOString(now))
          p2 == Put(p1, "metadata", Put(p1.metadata, "elementsCount", Num(Len(p1.elements.a))))
          ls1 == [ls EXCEPT !.CURRENT_PROJECT = Json(Stringify(p2))]
          ls2 == [ls1 EXCEPT !.LAST_SAVE = DecimalText(now)]
      IN  IF CannotAssign(Get(p1, "metadata"))
          THEN [ret |-> FALSE, ls |-> ls, project |-> p1, attempted |-> <<>>]
          ELSE IF "CURRENT_PROJECT" \in throws
          THEN [ret |-> FALSE, ls |-> ls, project |-> p2, attempted |-> <<"CURRENT_PROJECT">>]
          ELSE IF "LAST_SAVE" \in throws
          THEN [ret |-> FALSE, ls |-> ls1, project |-> p2,
                attempted |-> <<"CURRENT_PROJECT", "LAST_SAVE">>]
          ELSE [ret |-> TRUE, ls |-> addToProjectHistory(ls2, p2, throws), project |-> p2,
                attempted |-> <<"CURRENT_PROJECT", "LAST_SAVE", "addToProjectHistory">>]

deleteProjectFromHistory(ls, projectId, throws) ==
    LET history == getProjectHistory(ls)
        filteredHistory == SelectSeq(history.a, LAMBDA entry : Get(entry, "id") # projectId)
    IN  IF history.t # "arr" THEN [ret |-> FALSE, ls |-> ls]
        ELSE IF \E i \in 1..Len(history.a) : CannotRead(history.a[i]) THEN [ret |-> FALSE, ls |-> ls]
        ELSE IF Len(filteredHistory) = Len(history.a) THEN [ret |-> FALSE, ls |-> ls]
        ELSE IF "PROJECT_HISTORY" \in throws THEN [ret |-> FALSE, ls |-> ls]
        ELSE [ret |-> TRUE, ls |-> [ls EXCEPT !.PROJECT_HISTORY = Json(Stringify(Arr(filteredHistory)))]]

loadProjectFromHistory(ls, projectId) ==
    LET currentProject == getCurrentProject(ls)
    IN  IF ~Falsy(currentProject) /\ generateProjectId(currentProject).val = projectId
        THEN currentProject
        ELSE Null

DEFAULT_PREFERENCES_LITERAL ==
    [t |-> "obj", theme |-> Str("light"), gridSize |-> Bool(TRUE), autoSave |-> Bool(TRUE),
     autoSaveInterval |-> Num(5), defaultCanvasSize |-> Size(Num(50), Num(30)),
     showTooltips |-> Bool(TRUE), enableSounds |-> Bool(FALSE), language |-> Str("pt-BR")]

\* the value returned, and whether it is the defaults object itself or a fresh
\* object (whose defaultCanvasSize is still the defaults' one unless stored)
getUserPreferences(ls, defaults) ==
    LET prefsJson == ls.USER_PREFERENCES
        prefs == JSONparse(prefsJson)
    IN  IF NoItem(prefsJson) THEN [val |-> defaults, ref |-> "defaults"]
        ELSE IF prefs.threw THEN [val |-> defaults, ref |-> "defaults"]
        ELSE [val |-> Spread(defaults, prefs.val),
              ref |-> IF prefs.val.t = "obj" /\ HasProp(prefs.val, "defaultCanvasSize")
                      THEN "copy" ELSE "copySharingSize"]

saveUserPreferences(ls, defaults, preferences, throws) ==
    LET currentPrefs == getUserPreferences(ls, defaults).val
        updatedPrefs == Spread(currentPrefs, preferences)
    IN  IF "USER_PREFERENCES" \in throws THEN [ret |-> FALSE, ls |-> ls]
        ELSE [ret |-> TRUE, ls |-> [ls EXCEPT !.USER_PREFERENCES = Json(Stringify(updatedPrefs))]]

---------------------------------------------------------------------------
(* Bounds and the inputs drawn from them *)

MaxClock == 1      \* clock readings 1..MaxClock
MaxSaves == 51     \* successful saves counted on the initially empty store
MaxElements == 1   \* elements in a valid project passed to saveCurrentProject

Times == 1..MaxClock

Rect(id) ==
    [t |-> "obj", id |-> Num(id), type |-> Str("rectangle"), x |-> Num(10), y |-> Num(20),
     width |-> Num(5), height |-> Num(3)]

Tomate(spacing) ==
    [t |-> "obj", id |-> Str("tomate"), name |-> Str("Tomate"), spacing |-> Str(spacing),
     category |-> Str("horta"), color |-> Str("#FF6B6B")]

PlantElement(plant) ==
    [t |-> "obj", id |-> Num(7), type |-> Str("plant"), x |-> Num(1), y |-> Num(2), plant |-> plant]

\* elements violating one DrawingElement invariant
BadElements ==
    {[Rect(2) EXCEPT !.x = Num(10000000)],
     [Rect(2) EXCEPT !.y = NaN],
     PlantElement(Tomate("1x1"))}

Metadata(n) == [t |-> "obj", elementsCount |-> Num(n)]

Project(ts, size, elements, metadata) ==
    [t |-> "obj", version |-> Str("1.0"), timestamp |-> ts, lastModified |-> toISOString(0),
     canvasSize |-> size, elements |-> elements, selectedTool |-> Str("select"),
     metadata |-> metadata]

ElementLists == {[i \in 1..n |-> Rect(i)] : n \in 0..MaxElements}

\* projects that satisfy the data model, with a right or a wrong elementsCount
ValidProjects ==
    {Project(Num(1), Size(Num(50), Num(30)), Arr(a), Metadata(IF right THEN Len(a) ELSE 7)) :
        a \in ElementLists, right \in BOOLEAN}

\* well-formed projects the Validator rejects (canvas size or an element)
SemanticallyInvalidProjects ==
    {Project(Num(1), Size(Num(0), Num(10)), Arr(<<>>), Metadata(0))}
    \cup {Project(Num(1), Size(Num(50), Num(30)), Arr(<<Rect(1), e>>), Metadata(2)) : e \in BadElements}

Base == Project(Num(1), Size(Num(50), Num(30)), Arr(<<Rect(1)>>), Metadata(1))

Without(o, f) == [g \in (DOMAIN o) \ {f} |-> o[g]]

\* projects with one field missing or of the wrong shape
MalformedProjects ==
    {Without(Base, f) : f \in {"version", "timestamp", "canvasSize", "elements", "selectedTool",
                               "metadata", "lastModified"}}
    \cup {[Base EXCEPT !.canvasSize = v] : v \in {Null, Size(Str("50"), Num(30)),
                                                   Without(Size(Num(50), Num(30)), "height"),
                                                   Size(NaN, Num(30))}}
    \cup {[Base EXCEPT !.elements = v] : v \in {Null, [t |-> "obj"]}}
    \cup {[Base EXCEPT !.timestamp = v] : v \in {Num(0), Str("1"), NaN, Infinity}}
    \cup {[Base EXCEPT !.metadata = v] : v \in {Null, Num(1)}}
    \cup {Null}

Projects == ValidProjects \cup SemanticallyInvalidProjects \cup MalformedProjects

\* setItem calls that raise during one saveCurrentProject
SaveThrows == {{}, {"CURRENT_PROJECT"}, {"LAST_SAVE"}, {"PROJECT_HISTORY"}}

Entry(id, ts) ==
    [t |-> "obj", id |-> Str(id), name |-> Str("Projeto"), timestamp |-> Num(ts),
     lastModified |-> toISOString(ts), canvasSize |-> Size(Num(50), Num(30)),
     elementsCount |-> Num(0)]

ProjectIds == {Str("a"), Str("b"), Str("zz")}

\* what the history slot can hold when the program starts
HistoryContents ==
    {Missing, EmptyText, BadText, Json(Null), Json([t |-> "obj"]), Json(Arr(<<>>)),
     Json(Arr(<<Entry("a", 2), Entry("b", 1)>>)),
     Json(Arr(<<Entry("a", 3), Entry("b", 2), Entry("a", 1)>>))}

\* what the current-project slot can hold when the program starts
CurrentContents ==
    {Missing, EmptyText, BadText, Json(Null), Json(Num(1)),
     Json(Stringify(Base)),
     Json(Stringify(Without(Base, "metadata"))),
     Json(Stringify(Without(Base, "lastModified"))),
     Json(Stringify(Without(Base, "selectedTool"))),
     Json(Stringify([Base EXCEPT !.timestamp = NaN])),
     Json(Stringify([Base EXCEPT !.elements = Null]))}

NoEnv == [now |-> 0, throws |-> {}]

---------------------------------------------------------------------------
(* Operations of the store on the project, history and last-save slots *)

SaveCurrentProject(project, now, throws) ==
    LET r == saveCurrentProject(localStorage, project, now, throws)
    IN  /\ saves < MaxSaves
        /\ localStorage' = r.ls
        /\ op' = "saveCurrentProject"
        /\ arg' = project
        /\ env' = [now |-> now, throws |-> throws]
        /\ attempted' = r.attempted
        /\ ret' = Bool(r.ret)
        /\ saves' = IF saves >= 0 /\ r.ret THEN saves + 1 ELSE saves
        /\ UNCHANGED <<autoSaveVars, exportVars, DEFAULT_PREFERENCES, callerRef, firstPrefs>>

GetCurrentProject ==
    /\ op' = "getCurrentProject"
    /\ arg' = Undef
    /\ env' = NoEnv
    /\ attempted' = <<>>
    /\ ret' = getCurrentProject(localStorage)
    /\ UNCHANGED <<autoSaveVars, exportVars, localStorage, DEFAULT_PREFERENCES, callerRef, firstPrefs, saves>>

GetProjectHistory ==
    /\ op' = "getProjectHistory"
    /\ arg' = Undef
    /\ env' = NoEnv
    /\ attempted' = <<>>
    /\ ret' = getProjectHistory(localStorage)
    /\ UNCHANGED <<autoSaveVars, exportVars, localStorage, DEFAULT_PREFERENCES, callerRef, firstPrefs, saves>>

LoadProjectFromHistory(projectId) ==
    /\ op' = "loadProjectFromHistory"
    /\ arg' = projectId
    /\ env' = NoEnv
    /\ attempted' = <<>>
    /\ ret' = loadProjectFromHistory(localStorage, projectId)
    /\ UNCHANGED <<autoSaveVars, exportVars, localStorage, DEFAULT_PREFERENCES, callerRef, firstPrefs, saves>>

DeleteProjectFromHistory(projectId, throws) ==
    LET r == deleteProjectFromHistory(localStorage, projectId, throws)
    IN  /\ localStorage' = r.ls
        /\ op' = "deleteProjectFromHistory"
        /\ arg' = projectId
        /\ env' = [now |-> 0, throws |-> throws]
        /\ attempted' = <<>>
        /\ ret' = Bool(r.ret)
        /\ UNCHANGED <<autoSaveVars, exportVars, DEFAULT_PREFERENCES, callerRef, firstPrefs, saves>>

\* the environment of a save: the substrate is only consulted once validation has passed
SaveEnvs(project) ==
    IF validateProjectData(project) THEN Times \X SaveThrows ELSE {<<1, {}>>}

Quiet ==
    /\ DEFAULT_PREFERENCES = DEFAULT_PREFERENCES_LITERAL
    /\ callerRef = "none"
    /\ firstPrefs = Undef
    /\ op = "init"
    /\ arg = Undef
    /\ env = NoEnv
    /\ attempted = <<>>
    /\ ret = Undef
    /\ autoSave = [interval |-> 0, projectData |-> Null]
    /\ timers = {}
    /\ issued = 0
    /\ ticks = 0
    /\ invocations = 0
    /\ registered = [by |-> "none", project |-> Null]
    /\ downloads = <<>>
    /\ toast = "none"

\* the project slot: any content, saves of any project, reads
InitProject ==
    /\ localStorage \in {[EmptyStore EXCEPT !.CURRENT_PROJECT = c, !.PROJECT_HISTORY = h] :
                            c \in CurrentContents, h \in {Missing, Json(Arr(<<Entry("a", 1)>>))}}
    /\ Quiet
    /\ saves = -1

NextProject ==
    \/ \E project \in Projects : \E e \in SaveEnvs(project) : SaveCurrentProject(project, e[1], e[2])
    \/ GetCurrentProject

SpecProject == InitProject /\ [][NextProject]_vars

\* the history slot: any content, reads, deletions and saves of valid projects
InitHistory ==
    /\ localStorage \in {[EmptyStore EXCEPT !.PROJECT_HISTORY = h] : h \in HistoryContents}
    /\ Quiet
    /\ saves = -1

NextHistory ==
    \/ GetProjectHistory
    \/ \E projectId \in ProjectIds, throws \in {{}, {"PROJECT_HISTORY"}} :
          DeleteProjectFromHistory(projectId, throws)
    \/ \E project \in ValidProjects, now \in Times, throws \in {{}, {"PROJECT_HISTORY"}} :
          SaveCurrentProject(project, now, throws)
    \/ \E projectId \in {Str("a"), generateProjectId(Base).val} : LoadProjectFromHistory(projectId)

SpecHistory == InitHistory /\ [][NextHistory]_vars

\* the history bound: distinct valid projects saved one after the other on an empty store
DistinctProject(n, a) == Project(Num(n), Size(Num(50), Num(30)), Arr(a), Metadata(Len(a)))

InitHistoryBound ==
    /\ localStorage = EmptyStore
    /\ Quiet
    /\ saves = 0

NextHistoryBound ==
    \/ \E a \in ElementLists, now \in Times : SaveCurrentProject(DistinctProject(saves + 1, a), now, {})
    \/ GetProjectHistory

SpecHistoryBound == InitHistoryBound /\ [][NextHistoryBound]_vars

---------------------------------------------------------------------------
(* Operations of the store on the preferences slot, and a caller that      *)
(* assigns through the reference getUserPreferences handed out             *)

GetUserPreferences ==
    LET r == getUserPreferences(localStorage, DEFAULT_PREFERENCES)
    IN  /\ op' = "getUserPreferences"
        /\ arg' = Undef
        /\ env' = NoEnv
        /\ attempted' = <<>>
        /\ ret' = r.val
        /\ callerRef' = r.ref
        /\ firstPrefs' = IF firstPrefs = Undef THEN r.val ELSE firstPrefs
        /\ UNCHANGED <<autoSaveVars, exportVars, localStorage, DEFAULT_PREFERENCES, saves>>

SaveUserPreferences(preferences, throws) ==
    LET r == saveUserPreferences(localStorage, DEFAULT_PREFERENCES, preferences, throws)
    IN  /\ localStorage' = r.ls
        /\ op' = "saveUserPreferences"
        /\ arg' = preferences
        /\ env' = [now |-> 0, throws |-> throws]
        /\ attempted' = <<>>
        /\ ret' = Bool(r.ret)
        /\ firstPrefs' = Undef
        /\ UNCHANGED <<autoSaveVars, exportVars, DEFAULT_PREFERENCES, callerRef, saves>>

\* prefs.autoSaveInterval = value, by the holder of the returned object
CallerSetsInterval(value) ==
    /\ callerRef # "none"
    /\ DEFAULT_PREFERENCES' =
          IF callerRef = "defaults"
          THEN Put(DEFAULT_PREFERENCES, "autoSaveInterval", value)
          ELSE DEFAULT_PREFERENCES
    /\ op' = "callerSetsInterval"
    /\ arg' = value
    /\ env' = NoEnv
    /\ attempted' = <<>>
    /\ ret' = Undef
    /\ UNCHANGED <<autoSaveVars, exportVars, localStorage, callerRef, firstPrefs, saves>>

\* prefs.defaultCanvasSize.width = value, by the holder of the returned object
CallerSetsWidth(value) ==
    /\ callerRef # "none"
    /\ DEFAULT_PREFERENCES' =
          IF callerRef \in {"defaults", "copySharingSize"}
          THEN Put(DEFAULT_PREFERENCES, "defaultCanvasSize",
                   Put(DEFAULT_PREFERENCES.defaultCanvasSize, "width", value))
          ELSE DEFAULT_PREFERENCES
    /\ op' = "callerSetsWidth"
    /\ arg' = value
    /\ env' = NoEnv
    /\ attempted' = <<>>
    /\ ret' = Undef
    /\ UNCHANGED <<autoSaveVars, exportVars, localStorage, callerRef, firstPrefs, saves>>

\* partial preferences passed to saveUserPreferences
PartialPreferences ==
    {[t |-> "obj"],
     [t |-> "obj", autoSaveInterval |-> Num(10)],
     [t |-> "obj", autoSaveInterval |-> Num(0)],
     [t |-> "obj", theme |-> Str("dark"), language |-> Str("en")],
     [t |-> "obj", theme |-> Undef]}

\* what the preferences slot can hold when the program starts
PreferencesContents ==
    {Missing, EmptyText, BadText, Json(Null), Json(Num(1)),
     Json([t |-> "obj", theme |-> Str("dark")]),
     Json([t |-> "obj", defaultCanvasSize |-> Size(Num(20), Num(15))]),
     Json(Stringify(DEFAULT_PREFERENCES_LITERAL))}

InitPrefs ==
    /\ localStorage \in {[EmptyStore EXCEPT !.USER_PREFERENCES = c] : c \in PreferencesContents}
    /\ Quiet
    /\ saves = -1

NextPrefs ==
    \/ GetUserPreferences
    \/ \E preferences \in PartialPreferences, throws \in {{}, {"USER_PREFERENCES"}} :
          SaveUserPreferences(preferences, throws)
    \/ CallerSetsInterval(Num(60))
    \/ CallerSetsWidth(Num(100))

SpecPrefs == InitPrefs /\ [][NextPrefs]_vars

---------------------------------------------------------------------------
(* Clearing the store *)

\* Object.values(STORAGE_KEYS), in the order of the literal
StorageKeyOrder == <<"CURRENT_PROJECT", "PROJECT_HISTORY", "USER_PREFERENCES", "LAST_SAVE", "APP_VERSION">>

\* parseInt(text, 10) of what a slot holds
parseInt(slot) ==
    IF slot.k = "dec" THEN Num(slot.n)
    ELSE IF slot.k = "json" /\ slot.v.t = "num" THEN slot.v
    ELSE NaN

getLastSaveTime(ls) ==
    LET lastSave == ls.LAST_SAVE
    IN  IF NoItem(lastSave) THEN Null ELSE parseInt(lastSave)

\* removeItem for each key in turn; the first one that raises ends the loop
clearAllData(ls, throws) ==
    LET raising == {i \in 1..Len(StorageKeyOrder) : StorageKeyOrder[i] \in throws}
        stop == IF raising = {} THEN Len(StorageKeyOrder) + 1
                ELSE CHOOSE i \in raising : \A j \in raising : i <= j
    IN  [ret |-> raising = {},
         ls |-> [key \in STORAGE_KEYS |->
                    IF \E i \in 1..(stop - 1) : StorageKeyOrder[i] = key THEN Missing ELSE ls[key]]]

ClearAllData(throws) ==
    LET r == clearAllData(localStorage, throws)
    IN  /\ localStorage' = r.ls
        /\ op' = "clearAllData"
        /\ arg' = Undef
        /\ env' = [now |-> 0, throws |-> throws]
        /\ attempted' = <<>>
        /\ ret' = Bool(r.ret)
        /\ UNCHANGED <<autoSaveVars, exportVars, DEFAULT_PREFERENCES, callerRef, firstPrefs, saves>>

GetLastSaveTime ==
    /\ op' = "getLastSaveTime"
    /\ arg' = Undef
    /\ env' = NoEnv
    /\ attempted' = <<>>
    /\ ret' = getLastSaveTime(localStorage)
    /\ UNCHANGED <<autoSaveVars, exportVars, localStorage, DEFAULT_PREFERENCES, callerRef, firstPrefs, saves>>

\* removeItem calls that raise during one clearAllData
ClearThrows == {{}, {"CURRENT_PROJECT"}, {"USER_PREFERENCES"}, {"APP_VERSION"}}

\* every slot filled or not, then any use of the store around clearAllData
InitClear ==
    /\ localStorage \in
          {[CURRENT_PROJECT |-> c, PROJECT_HISTORY |-> h, USER_PREFERENCES |-> u,
            LAST_SAVE |-> l, APP_VERSION |-> v] :
              c \in {Missing, Json(Stringify(Base))},
              h \in {Missing, Json(Arr(<<Entry("a", 1)>>))},
              u \in {Missing, Json([t |-> "obj", theme |-> Str("dark")])},
              l \in {Missing, DecimalText(1)},
              v \in {Missing, Json(Str("1.0"))}}
    /\ Quiet
    /\ saves = -1

NextClear ==
    \/ \E throws \in ClearThrows : ClearAllData(throws)
    \/ GetCurrentProject
    \/ GetProjectHistory
    \/ GetUserPreferences
    \/ GetLastSaveTime
    \/ SaveCurrentProject(Base, 1, {})
    \/ SaveUserPreferences([t |-> "obj", autoSaveInterval |-> Num(10)], {})
    \/ CallerSetsInterval(Num(60))

SpecClear == InitClear /\ [][NextClear]_vars

---------------------------------------------------------------------------
(* The AutoSave scheduler: one instance, the host's table of periodic       *)
(* timers, and the callback the host runs for a live timer                  *)

MaxTicks == 3     \* timer callbacks run
MaxTimers == 3    \* handles setInterval hands out

\* clearInterval(handle)
clearInterval(live, handle) == live \ {handle}

\* start that leaves the previous timer running
start_keepsTimer(self, live, n, projectData) ==
    [self |-> [interval |-> n + 1, projectData |-> projectData],
     timers |-> live \cup {n + 1},
     issued |-> n + 1]

\* the instance, the live timers and the handles issued after start(projectData);
\* interval 0 is the null of the source, handles are truthy
start(self, live, n, projectData) ==
    LET live1 == IF self.interval # 0 THEN clearInterval(live, self.interval) ELSE live
    IN  [self |-> [interval |-> n + 1, projectData |-> projectData],
         timers |-> live1 \cup {n + 1},
         issued |-> n + 1]

\* stop that drops the handle without cancelling the timer
stop_forgetsTimer(self, live) ==
    IF self.interval # 0
    THEN [self |-> [self EXCEPT !.interval = 0], timers |-> live]
    ELSE [self |-> self, timers |-> live]

stop(self, live) ==
    IF self.interval # 0
    THEN [self |-> [self EXCEPT !.interval = 0], timers |-> clearInterval(live, self.interval)]
    ELSE [self |-> self, timers |-> live]

\* updateProject that also restarts the timer
updateProject_restarts(self, live, n, projectData) ==
    start(self, live, n, projectData)

updateProject(self, live, n, projectData) ==
    [self |-> [self EXCEPT !.projectData = projectData], timers |-> live, issued |-> n]

\* the arrow function given to setInterval: how often it called saveCurrentProject,
\* with what, and the outcome of that call
timerCallback(self, ls, now, throws) ==
    IF ~Falsy(self.projectData)
    THEN [calls |-> 1, with |-> self.projectData,
          save |-> saveCurrentProject(ls, self.projectData, now, throws)]
    ELSE [calls |-> 0, with |-> Undef,
          save |-> [ret |-> FALSE, ls |-> ls, project |-> self.projectData, attempted |-> <<>>]]

\* projects an editing session registers
AutoSaveProjects == {Project(Num(ts), Size(Num(50), Num(30)), Arr(<<>>), Metadata(0)) : ts \in 1..2}

Start(projectData) ==
    LET r == start(autoSave, timers, issued, projectData)
    IN  /\ issued < MaxTimers
        /\ autoSave' = r.self
        /\ timers' = r.timers
        /\ issued' = r.issued
        /\ registered' = [by |-> "start", project |-> projectData]
        /\ op' = "start"
        /\ arg' = projectData
        /\ env' = NoEnv
        /\ attempted' = <<>>
        /\ ret' = Undef
        /\ UNCHANGED <<exportVars, localStorage, DEFAULT_PREFERENCES, callerRef, firstPrefs, saves,
                       ticks, invocations>>

Stop ==
    LET r == stop(autoSave, timers)
    IN  /\ autoSave' = r.self
        /\ timers' = r.timers
        /\ op' = "stop"
        /\ arg' = Undef
        /\ env' = NoEnv
        /\ attempted' = <<>>
        /\ ret' = Undef
        /\ UNCHANGED <<exportVars, localStorage, DEFAULT_PREFERENCES, callerRef, firstPrefs, saves,
                       issued, ticks, invocations, registered>>

UpdateProject(projectData) ==
    LET r == updateProject(autoSave, timers, issued, projectData)
    IN  /\ r.issued <= MaxTimers
        /\ autoSave' = r.self
        /\ timers' = r.timers
        /\ issued' = r.issued
        /\ registered' = [by |-> "updateProject", project |-> projectData]
        /\ op' = "updateProject"
        /\ arg' = projectData
        /\ env' = NoEnv
        /\ attempted' = <<>>
        /\ ret' = Undef
        /\ UNCHANGED <<exportVars, localStorage, DEFAULT_PREFERENCES, callerRef, firstPrefs, saves,
                       ticks, invocations>>

\* the host runs the callback of the live timer `handle`; saveCurrentProject
\* assigns to the project it is given, which is the tracked object
Tick(handle, now, throws) ==
    LET r == timerCallback(autoSave, localStorage, now, throws)
    IN  /\ handle \in timers
        /\ ticks < MaxTicks
        /\ ticks' = ticks + 1
        /\ invocations' = invocations + r.calls
        /\ localStorage' = r.save.ls
        /\ autoSave' = [autoSave EXCEPT !.projectData = r.save.project]
        /\ op' = "tick"
        /\ arg' = r.with
        /\ env' = [now |-> now, throws |-> throws, timer |-> handle]
        /\ attempted' = r.save.attempted
        /\ ret' = Bool(r.save.ret)
        /\ UNCHANGED <<exportVars, DEFAULT_PREFERENCES, callerRef, firstPrefs, saves,
                       timers, issued, registered>>

InitAutoSave ==
    /\ localStorage \in {EmptyStore, [EmptyStore EXCEPT !.CURRENT_PROJECT = Json(Stringify(Base))]}
    /\ Quiet
    /\ saves = -1

NextAutoSave ==
    \/ \E projectData \in AutoSaveProjects : Start(projectData)
    \/ Stop
    \/ \E projectData \in AutoSaveProjects : UpdateProject(projectData)
    \/ \E handle \in timers, now \in Times, throws \in {{}, {"CURRENT_PROJECT"}} :
          Tick(handle, now, throws)

SpecAutoSave == InitAutoSave /\ [][NextAutoSave]_vars

---------------------------------------------------------------------------
(* The export / import codec (exportUtils.ts) *)

MaxExportElements == 3   \* elements in a list given to createExportData
MaxExportClock == 2      \* clock readings 1..MaxExportClock at an export

\* new Date(ms).toLocaleDateString('pt-BR'): the text names the day
MsPerDay == 86400000
toLocaleDateString(ms) == [t |-> "str", s |-> "dd/mm/aaaa", day |-> ms \div MsPerDay]

\* the fields createExportData copies from an element
ExportElementFields ==
    {"id", "type", "x", "y", "width", "height", "radius", "rotation", "plant", "terrain",
     "structure", "realWorldWidth", "realWorldHeight", "brushType", "texture", "pathPoints",
     "selectedBrushMode", "brushThickness"}

\* elements.filter(el => el.type === type).length
CountOfType(elements, types) ==
    Cardinality({i \in 1..Len(elements.a) : Get(elements.a[i], "type") \in types})

createExportData(elements, canvasSize, projectName, now) ==
    LET timestamp == Num(now)
        categories ==
            [t |-> "obj",
             plants |-> Num(CountOfType(elements, {Str("plant")})),
             terrain |-> Num(CountOfType(elements, {Str("terrain")})),
             structures |-> Num(CountOfType(elements, {Str("structure")})),
             shapes |-> Num(CountOfType(elements, {Str("rectangle"), Str("circle")}))]
        exportElements ==
            [i \in 1..Len(elements.a) |->
                [f \in ExportElementFields \cup {"t"} |->
                    IF f = "t" THEN "obj"
                    ELSE IF Get(elements.a[i], f).t = "absent" THEN Undef
                    ELSE elements.a[i][f]]]
    IN  [t |-> "obj",
         version |-> Str("1.0"),
         timestamp |-> timestamp,
         projectInfo |->
             [t |-> "obj",
              name |-> IF Falsy(projectName)
                       THEN [t |-> "str", s |-> "Projeto Agroecologico", date |-> toLocaleDateString(now)]
                       ELSE projectName,
              description |-> [t |-> "str", s |-> "Projeto com elementos em area de metros",
                               count |-> Len(elements.a),
                               width |-> canvasSize.width, height |-> canvasSize.height],
              canvasSize |-> canvasSize,
              totalElements |-> Num(Len(elements.a)),
              categories |-> categories],
         elements |-> Arr(exportElements),
         metadata |->
             [t |-> "obj",
              exportDate |-> toISOString(now),
              exportedBy |-> Str("Agroecologia Desenhada v1.0"),
              coordinates |-> [t |-> "obj", system |-> Str("meters"),
                               origin |-> [t |-> "obj", x |-> Num(0), y |-> Num(0)]]]]

\* the names exportProjectAsJSON can read: its parameters, its constants, the imports
ExportScope == {"elements", "canvasSize", "projectName", "exportData", "blob", "url", "link", "toast"}

\* reading an identifier that is declared nowhere raises a ReferenceError
Declared(name) == name \in ExportScope

\* what the call downloaded and the toast it ended with; `available` is whether
\* Blob, URL.createObjectURL and the document are there
exportProjectAsJSON(elements, canvasSize, projectName, now, available) ==
    LET exportData == createExportData(elements, canvasSize, projectName, now)
    IN  IF ~available THEN [downloads |-> <<>>, toast |-> "error"]
        ELSE IF ~Declared("timestamp") THEN [downloads |-> <<>>, toast |-> "error"]
        ELSE [downloads |-> <<Json(Stringify(exportData))>>, toast |-> "success"]

exportRequiredFields == <<"version", "timestamp", "projectInfo", "elements", "metadata">>

elementRequiredFields == <<"id", "type", "x", "y">>

exportValidTypes == {Str("plant"), Str("terrain"), Str("structure"), Str("rectangle"), Str("circle")}

\* v !== undefined
Defined(v) == v.t \notin {"undef", "absent"}

\* typeof v !== 'number' || v < 0
NotNonNegative(v) == typeof(v) # "number" \/ NumLt(v, 0)

validateExportElement(element) ==
    /\ ~Falsy(element) /\ typeof(element) = "object"
    /\ \A i \in 1..Len(elementRequiredFields) : HasProp(element, elementRequiredFields[i])
    /\ Get(element, "type") \in exportValidTypes
    /\ typeof(Get(element, "x")) = "number" /\ typeof(Get(element, "y")) = "number"
    /\ (Get(element, "type") = Str("circle") /\ Defined(Get(element, "radius")))
          => ~NotNonNegative(Get(element, "radius"))
    /\ (/\ Get(element, "type") \in {Str("rectangle"), Str("terrain")}
        /\ (Defined(Get(element, "width")) \/ Defined(Get(element, "height"))))
          => ~(NotNonNegative(Get(element, "width")) \/ NotNonNegative(Get(element, "height")))

\* Ok(TRUE) or Ok(FALSE), or the TypeError of reading canvasSize of undefined or null
validateExportData(data) ==
    IF Falsy(data) \/ typeof(data) # "object" THEN Ok(FALSE)
    ELSE IF \E i \in 1..Len(exportRequiredFields) : ~HasProp(data, exportRequiredFields[i]) THEN Ok(FALSE)
    ELSE IF CannotRead(data.projectInfo) THEN Raise
    ELSE LET canvasSize == Get(data.projectInfo, "canvasSize")
         IN  IF Falsy(canvasSize) \/ typeof(canvasSize) # "object" THEN Ok(FALSE)
             ELSE IF data.elements.t # "arr" THEN Ok(FALSE)
             ELSE Ok(\A i \in 1..Len(data.elements.a) : validateExportElement(data.elements.a[i]))

\* import that adopts an accepted document as the current project
importProjectFromJSON_adopts(ls, jsonData) ==
    LET data == JSONparse(jsonData)
        valid == validateExportData(data.val)
    IN  IF data.threw THEN [ret |-> Null, ls |-> ls, toast |-> "error"]
        ELSE IF valid.threw THEN [ret |-> Null, ls |-> ls, toast |-> "error"]
        ELSE IF ~valid.val THEN [ret |-> Null, ls |-> ls, toast |-> "error"]
        ELSE [ret |-> data.val, ls |-> [ls EXCEPT !.CURRENT_PROJECT = jsonData], toast |-> "success"]

\* the value returned, the substrate afterwards and the toast shown
importProjectFromJSON(ls, jsonData) ==
    LET data == JSONparse(jsonData)
        valid == validateExportData(data.val)
    IN  IF data.threw THEN [ret |-> Null, ls |-> ls, toast |-> "error"]
        ELSE IF valid.threw THEN [ret |-> Null, ls |-> ls, toast |-> "error"]
        ELSE IF ~valid.val THEN [ret |-> Null, ls |-> ls, toast |-> "error"]
        ELSE [ret |-> data.val, ls |-> ls, toast |-> "success"]

\* elements that satisfy the DrawingElement invariants, one per way of carrying
\* the optional fields
Circle(id) ==
    [t |-> "obj", id |-> Num(id), type |-> Str("circle"), x |-> Num(0), y |-> Num(-5), radius |-> Num(4)]

Solo == [t |-> "obj", id |-> Str("solo"), name |-> Str("Solo"), category |-> Str("solo"),
         color |-> Str("#8B4513"), brushThickness |-> Num(10)]

TerrainElement(id) ==
    [t |-> "obj", id |-> Num(id), type |-> Str("terrain"), x |-> Num(3), y |-> Num(4),
     terrain |-> Solo, selected |-> Bool(FALSE)]

Galpao(size) ==
    [t |-> "obj", id |-> Str("galpao"), name |-> Str("Galpao"), category |-> Str("construcao"),
     color |-> Str("#696969"), size |-> size]

StructureElement(id) ==
    [t |-> "obj", id |-> Num(id), type |-> Str("structure"), x |-> Num(6), y |-> Num(7),
     structure |-> Galpao(Size(Num(5), Num(4)))]

ExportElements ==
    <<Rect(1),
      Circle(3),
      Without(Rect(2), "height"),
      Put(PlantElement(Tomate("1x1m")), "selected", Bool(TRUE)),
      TerrainElement(5),
      StructureElement(6)>>

\* n elements of ExportElements in a row, from the i-th on and round again
Run(i, n) == [k \in 1..n |-> ExportElements[((i + k - 2) % Len(ExportElements)) + 1]]

ExportLists == {<<>>} \cup {Run(i, n) : i \in 1..Len(ExportElements), n \in 1..MaxExportElements}

ExportCanvasSizes == {Size(Num(50), Num(30)), Size(Num(1), Num(200))}

ExportNames == {Undef, Str("Horta")}

ExportTimes == 1..MaxExportClock

\* the document exported from one rectangle, and documents that are wrong in one place
GoodDocument == Stringify(createExportData(Arr(<<Rect(1)>>), Size(Num(50), Num(30)), Str("Horta"), 1))

DocumentWith(element) == [GoodDocument EXCEPT !.elements = Arr(<<Stringify(Rect(1)), element>>)]

ImportedElements ==
    {Null, Num(1),
     Without(Rect(2), "id"), Without(Rect(2), "type"), Without(Rect(2), "x"), Without(Rect(2), "y"),
     [Rect(2) EXCEPT !.type = Str("triangle")],
     [Rect(2) EXCEPT !.x = Str("10")],
     [Rect(2) EXCEPT !.y = Null],
     [Rect(2) EXCEPT !.x = Num(200000)],
     [Rect(2) EXCEPT !.y = Infinity],
     [Rect(2) EXCEPT !.width = Num(-1)],
     [Rect(2) EXCEPT !.height = Str("3")],
     Without(Rect(2), "height"),
     [Circle(3) EXCEPT !.radius = Num(-1)],
     [Circle(3) EXCEPT !.radius = Str("4")],
     Put(PlantElement(Tomate("1x1m")), "width", Num(-5)),
     Stringify(StructureElement(6)),
     Stringify(TerrainElement(5))}

ImportedDocuments ==
    {Null, Num(1), Arr(<<>>), [t |-> "obj", foo |-> Str("bar")], GoodDocument}
    \cup {Without(GoodDocument, exportRequiredFields[i]) : i \in 1..Len(exportRequiredFields)}
    \cup {[GoodDocument EXCEPT !.projectInfo = v] :
             v \in {Null, Num(1), [t |-> "obj"],
                    [GoodDocument.projectInfo EXCEPT !.canvasSize = Null],
                    [GoodDocument.projectInfo EXCEPT !.canvasSize = Size(Str("50"), Num(30))],
                    [GoodDocument.projectInfo EXCEPT !.canvasSize = Size(Num(0), Num(10))],
                    [GoodDocument.projectInfo EXCEPT !.canvasSize = Size(Num(50), Null)]}}
    \cup {[GoodDocument EXCEPT !.elements = v] : v \in {Null, [t |-> "obj"], Arr(<<>>)}}
    \cup {DocumentWith(element) : element \in ImportedElements}

ImportedTexts == {BadText, EmptyText} \cup {Json(data) : data \in ImportedDocuments}

ExportArgs(elements, canvasSize, projectName) ==
    [t |-> "obj", elements |-> elements, canvasSize |-> canvasSize, projectName |-> projectName]

CreateExportData(elements, canvasSize, projectName, now) ==
    /\ op' = "createExportData"
    /\ arg' = ExportArgs(elements, canvasSize, projectName)
    /\ env' = [now |-> now, throws |-> {}]
    /\ attempted' = <<>>
    /\ ret' = createExportData(elements, canvasSize, projectName, now)
    /\ UNCHANGED <<autoSaveVars, exportVars, localStorage, DEFAULT_PREFERENCES, callerRef, firstPrefs, saves>>

ExportProjectAsJSON(elements, canvasSize, projectName, now, available) ==
    LET r == exportProjectAsJSON(elements, canvasSize, projectName, now, available)
    IN  /\ op' = "exportProjectAsJSON"
        /\ arg' = ExportArgs(elements, canvasSize, projectName)
        /\ env' = [now |-> now, throws |-> {}, available |-> available]
        /\ attempted' = <<>>
        /\ ret' = Undef
        /\ downloads' = r.downloads
        /\ toast' = r.toast
        /\ UNCHANGED <<autoSaveVars, localStorage, DEFAULT_PREFERENCES, callerRef, firstPrefs, saves>>

\* import of a text; `source` is what the text was exported from, Undef for
\* a text that comes from elsewhere
ImportProjectFromJSON(jsonData, source) ==
    LET r == importProjectFromJSON(localStorage, jsonData)
    IN  /\ op' = "importProjectFromJSON"
        /\ arg' = jsonData
        /\ env' = [now |-> 0, throws |-> {}, source |-> source]
        /\ attempted' = <<>>
        /\ ret' = r.ret
        /\ localStorage' = r.ls
        /\ toast' = r.toast
        /\ UNCHANGED <<autoSaveVars, downloads, DEFAULT_PREFERENCES, callerRef, firstPrefs, saves>>

InitExport ==
    /\ localStorage \in {EmptyStore,
                         [EmptyStore EXCEPT !.CURRENT_PROJECT = Json(Stringify(Base)),
                                            !.PROJECT_HISTORY = Json(Arr(<<Entry("a", 1)>>)),
                                            !.USER_PREFERENCES = Json([t |-> "obj", theme |-> Str("dark")]),
                                            !.LAST_SAVE = DecimalText(1)]}
    /\ Quiet
    /\ saves = -1

NextExport ==
    \/ \E a \in ExportLists, canvasSize \in ExportCanvasSizes, projectName \in ExportNames,
          now \in ExportTimes :
          CreateExportData(Arr(a), canvasSize, projectName, now)
    \/ \E a \in ExportLists, projectName \in ExportNames, now \in ExportTimes, available \in BOOLEAN :
          ExportProjectAsJSON(Arr(a), Size(Num(50), Num(30)), projectName, now, available)
    \/ \E a \in ExportLists, canvasSize \in ExportCanvasSizes :
          ImportProjectFromJSON(Json(Stringify(createExportData(Arr(a), canvasSize, Str("Horta"), 1))),
                                ExportArgs(Arr(a), canvasSize, Str("Horta")))
    \/ \E jsonData \in ImportedTexts : ImportProjectFromJSON(jsonData, Undef)

SpecExport == InitExport /\ [][NextExport]_vars

---------------------------------------------------------------------------
(* The validators applied to values of each domain type *)

\* plants, terrains and structures built to satisfy the data model
ValidPlants ==
    {[Tomate(spacing) EXCEPT !.color = Str(color)] :
        spacing \in {"1x1m", "30x30cm", "50cm", "2m", "0.5m"}, color \in {"#FF6B6B", "#8b4513"}}

ValidTerrains ==
    {Without(Solo, "brushThickness")}
    \cup {[Solo EXCEPT !.brushThickness = Num(n), !.color = Str(color)] :
             n \in {1, 10, 100}, color \in {"#8B4513", "#8b4513"}}

\* sides in (0.1, 100]: 0.2, 0.5, 1 and 100 meters
ValidStructures ==
    {Galpao(Size(w, h)) : w \in {Dec(2), Dec(5), Num(1), Num(100)}, h \in {Dec(2), Num(4), Num(100)}}

\* the optional fields an element of the given type carries
ElementOf(id, type, extra) ==
    [f \in {"t", "id", "type", "x", "y"} \cup ((DOMAIN extra) \ {"t"}) |->
        CASE f = "t" -> "obj"
          [] f = "id" -> Num(id)
          [] f = "type" -> Str(type)
          [] f = "x" -> Num(12)
          [] f = "y" -> Num(-100000)
          [] OTHER -> extra[f]]

ElementTypes == {"plant", "terrain", "structure", "rectangle", "circle"}

ElementIds == {0, 1, 7, -3}

ElementExtras(type) ==
    {[t |-> "obj"],
     [t |-> "obj", rotation |-> Num(90), selected |-> Bool(TRUE)],
     [t |-> "obj", width |-> Num(0), height |-> Dec(25)]}
    \cup (CASE type = "plant" -> {[t |-> "obj", plant |-> Tomate("30x30cm")]}
            [] type = "terrain" -> {[t |-> "obj", terrain |-> Solo, width |-> Num(5), height |-> Num(3)]}
            [] type = "structure" -> {[t |-> "obj", structure |-> Galpao(Size(Num(5), Num(4)))]}
            [] type = "circle" -> {[t |-> "obj", radius |-> Num(4)]}
            [] OTHER -> {[t |-> "obj", width |-> Num(5)]})

\* elements built to satisfy the DrawingElement invariants
ValidDrawingElements ==
    {ElementOf(id, type, extra) :
        id \in ElementIds,
        type \in ElementTypes,
        extra \in UNION {ElementExtras(u) : u \in ElementTypes}}

\* values breaking one invariant
InvalidPlants ==
    {Tomate(spacing) : spacing \in {"1x1", "1.m", "x2m", "2 m"}}
    \cup {[Tomate("2m") EXCEPT !.color = Str(color)] : color \in {"#GGGGGG", "#FFF", "FF6B6B0"}}
    \cup {Null, Without(Tomate("2m"), "id"), [Tomate("2m") EXCEPT !.name = Str(Long101)],
          Str("tomate"), Undef}

InvalidTerrains ==
    {[Solo EXCEPT !.brushThickness = v] : v \in {Num(0), Num(101), Str("10"), NaN, Dec(15)}}
    \cup {Null, Without(Solo, "name"), [Solo EXCEPT !.color = Str("#FFF")]}

InvalidStructures ==
    {Galpao(size) : size \in {Null, Size(Num(0), Num(4)), Size(Dec(1), Num(4)), Size(Num(5), Num(101)),
                              Size(Str("5"), Num(4)), Size(NaN, Num(4))}}
    \cup {Null, Without(Galpao(Size(Num(5), Num(4))), "category"),
          [Galpao(Size(Num(5), Num(4))) EXCEPT !.color = Str("#GGGGGG")]}

InvalidDrawingElements ==
    BadElements
    \cup {Null, Without(Rect(2), "id"), [Rect(2) EXCEPT !.type = Str("triangle")],
          [Rect(2) EXCEPT !.width = Num(-1)], Put(Rect(2), "rotation", Infinity),
          [Circle(3) EXCEPT !.radius = NaN],
          Put(TerrainElement(5), "terrain", [Solo EXCEPT !.brushThickness = Num(0)]),
          Put(PlantElement(Tomate("2m")), "width", Num(-1)),
          Put(PlantElement(Tomate("2m")), "radius", Infinity),
          Put(StructureElement(9), "height", NaN),
          Num(5), PlantElement(Num(5)), PlantElement([t |-> "obj"]),
          Put(TerrainElement(5), "terrain", Str("solo"))}

ValidatePlant(plant) ==
    /\ op' = "validatePlant"
    /\ arg' = plant
    /\ env' = NoEnv
    /\ attempted' = <<>>
    /\ ret' = validatePlant(plant)
    /\ UNCHANGED <<autoSaveVars, exportVars, localStorage, DEFAULT_PREFERENCES, callerRef, firstPrefs, saves>>

ValidateTerrain(terrain) ==
    /\ op' = "validateTerrain"
    /\ arg' = terrain
    /\ env' = NoEnv
    /\ attempted' = <<>>
    /\ ret' = validateTerrain(terrain)
    /\ UNCHANGED <<autoSaveVars, exportVars, localStorage, DEFAULT_PREFERENCES, callerRef, firstPrefs, saves>>

ValidateStructure(structure) ==
    /\ op' = "validateStructure"
    /\ arg' = structure
    /\ env' = NoEnv
    /\ attempted' = <<>>
    /\ ret' = validateStructure(structure)
    /\ UNCHANGED <<autoSaveVars, exportVars, localStorage, DEFAULT_PREFERENCES, callerRef, firstPrefs, saves>>

ValidateDrawingElement(element) ==
    /\ op' = "validateDrawingElement"
    /\ arg' = element
    /\ env' = NoEnv
    /\ attempted' = <<>>
    /\ ret' = validateDrawingElement(element)
    /\ UNCHANGED <<autoSaveVars, exportVars, localStorage, DEFAULT_PREFERENCES, callerRef, firstPrefs, saves>>

\* canvas sizes, element lists and options handed to the canvas validators
CanvasSizes ==
    {Size(Num(50), Num(30)), Size(Num(1), Num(200)), Size(Num(0), Num(30)), Size(Num(50), Num(201)),
     Size(NaN, Num(30)), Size(Num(50), Str("30")), Without(Size(Num(50), Num(30)), "width"),
     Null, Undef, Str("50x30")}

CanvasElements ==
    {Arr(<<>>), Arr(<<Rect(1)>>), Arr(<<Rect(1), Circle(3)>>), Arr(<<Rect(1), Null>>),
     Arr(<<PlantElement(Num(5))>>), Null, Undef, Str("[]"), [t |-> "obj"]}

CanvasOptions ==
    {Undef, Null, [t |-> "obj"],
     [t |-> "obj", maxElements |-> Num(1)],
     [t |-> "obj", minCanvasSize |-> Size(Num(10), Num(10))],
     [t |-> "obj", minCanvasSize |-> Null],
     [t |-> "obj", maxCanvasSize |-> Undef]}

ValidateCanvasSize(size, options) ==
    /\ op' = "validateCanvasSize"
    /\ arg' = [size |-> size, options |-> options]
    /\ env' = NoEnv
    /\ attempted' = <<>>
    /\ ret' = LET r == validateCanvasSize(size, options) IN IF r.threw THEN Thrown ELSE r.val
    /\ UNCHANGED <<autoSaveVars, exportVars, localStorage, DEFAULT_PREFERENCES, callerRef, firstPrefs, saves>>

ValidateElementsArray(elements, options) ==
    /\ op' = "validateElementsArray"
    /\ arg' = [elements |-> elements, options |-> options]
    /\ env' = NoEnv
    /\ attempted' = <<>>
    /\ ret' = validateElementsArray(elements, options)
    /\ UNCHANGED <<autoSaveVars, exportVars, localStorage, DEFAULT_PREFERENCES, callerRef, firstPrefs, saves>>

ValidateCanvasState(elements, canvasSize, options) ==
    /\ op' = "validateCanvasState"
    /\ arg' = [elements |-> elements, size |-> canvasSize, options |-> options]
    /\ env' = NoEnv
    /\ attempted' = <<>>
    /\ ret' = LET r == validateCanvasState(elements, canvasSize, options) IN IF r.threw THEN Thrown ELSE r.val
    /\ UNCHANGED <<autoSaveVars, exportVars, localStorage, DEFAULT_PREFERENCES, callerRef, firstPrefs, saves>>

InitValidators ==
    /\ localStorage = EmptyStore
    /\ Quiet
    /\ saves = -1

NextValidators ==
    \/ \E plant \in ValidPlants \cup InvalidPlants : ValidatePlant(plant)
    \/ \E terrain \in ValidTerrains \cup InvalidTerrains : ValidateTerrain(terrain)
    \/ \E structure \in ValidStructures \cup InvalidStructures : ValidateStructure(structure)
    \/ \E element \in ValidDrawingElements \cup InvalidDrawingElements : ValidateDrawingElement(element)
    \/ \E size \in CanvasSizes, options \in CanvasOptions : ValidateCanvasSize(size, options)
    \/ \E elements \in CanvasElements, options \in CanvasOptions : ValidateElementsArray(elements, options)
    \/ \E elements \in CanvasElements, size \in CanvasSizes, options \in CanvasOptions :
            ValidateCanvasState(elements, size, options)

SpecValidators == InitValidators /\ [][NextValidators]_vars

---------------------------------------------------------------------------
(* Manual saves interleaved with AutoSave ticks (dataPersistence.ts); each *)
(* call runs to completion before the next starts                           *)

\* the project the editor saves by hand, distinct from the ones AutoSave tracks
ManualProjects == {Project(Num(3), Size(Num(40), Num(20)), Arr(<<Rect(1)>>), Metadata(1))}

InterleaveThrows == {{}, {"CURRENT_PROJECT"}, {"LAST_SAVE"}}

InitInterleave ==
    /\ localStorage = EmptyStore
    /\ Quiet
    /\ saves = -1

NextInterleave ==
    \/ \E projectData \in AutoSaveProjects : Start(projectData)
    \/ \E projectData \in AutoSaveProjects : UpdateProject(projectData)
    \/ \E handle \in timers, now \in Times, throws \in InterleaveThrows : Tick(handle, now, throws)
    \/ \E project \in ManualProjects, now \in Times, throws \in InterleaveThrows :
            SaveCurrentProject(project, now, throws)

SpecInterleave == InitInterleave /\ [][NextInterleave]_vars

---------------------------------------------------------------------------
(* Project statistics (exportUtils.ts).  Lengths are counted in units of    *)
(* 1/10000 m and a spacing in half-units (1/20000 m), so that (w + h) / 2   *)
(* stays whole; a quotient is kept as numerator and denominator.            *)

MaxStatElements == 2   \* elements in a list given to calculateProjectStatistics

Ratio(num, den) == [t |-> "ratio", num |-> num, den |-> den]

\* the value of the digits cs[i..j-1]
RECURSIVE Natural(_, _, _)
Natural(cs, i, j) ==
    IF j <= i THEN 0
    ELSE 10 * Natural(cs, i, j - 1) + (CHOOSE d \in 0..9 : DigitChars[d + 1] = cs[j - 1])

\* parseFloat of cs[i..j-1], a \d+(?:\.\d+)? with at most two decimals, in hundredths
parseFloat(cs, i, j) ==
    IF IsDigits(cs, i, j) THEN 100 * Natural(cs, i, j)
    ELSE LET d == CHOOSE k \in i..(j - 1) : cs[k] = "."
         IN  100 * Natural(cs, i, d) + (IF j - d = 2 THEN 10 ELSE 1) * Natural(cs, d + 1, j)

\* s.match(/(\d+(?:\.\d+)?)x(\d+(?:\.\d+)?)(cm|m)/): the leftmost match, as the
\* bounds of its groups (group 1 is cs[i..x-1], group 2 cs[x+1..e-1], the unit starts at e)
spacingMatch(s) ==
    LET cs == Chars(s)
        n == Len(cs)
        matches == {m \in (1..n) \X (1..n) \X (1..n) :
                       /\ m[1] < m[2] /\ m[2] < m[3]
                       /\ IsNumber(cs, m[1], m[2])
                       /\ cs[m[2]] = "x"
                       /\ IsNumber(cs, m[2] + 1, m[3])
                       /\ \/ m[3] < n /\ cs[m[3]] = "c" /\ cs[m[3] + 1] = "m"
                          \/ cs[m[3]] = "m"}
        first == CHOOSE m \in matches : \A o \in matches : m[1] <= o[1]
    IN  IF matches = {} THEN Null
        ELSE [t |-> "match",
              width |-> parseFloat(cs, first[1], first[2]),
              height |-> parseFloat(cs, first[2] + 1, first[3]),
              unit |-> IF cs[first[3]] = "c" THEN "cm" ELSE "m"]

\* what one element adds to stats.averageSpacing, in half-units
spacingOf(element) ==
    LET plant == Get(element, "plant")
        spacing == IF plant.t = "obj" THEN Get(plant, "spacing") ELSE Undef
        spacingMatchResult == spacingMatch(spacing.s)
    IN  IF Falsy(spacing) THEN 0
        ELSE IF spacingMatchResult = Null THEN 0
        ELSE LET metersWidth == IF spacingMatchResult.unit = "cm" THEN spacingMatchResult.width
                                ELSE 100 * spacingMatchResult.width
                 metersHeight == IF spacingMatchResult.unit = "cm" THEN spacingMatchResult.height
                                 ELSE 100 * spacingMatchResult.height
             IN  metersWidth + metersHeight

\* realWorldWidth * realWorldHeight of a terrain element that has both
areaOf(element) ==
    IF /\ Get(element, "type") = Str("terrain")
       /\ ~Falsy(Get(element, "realWorldWidth")) /\ ~Falsy(Get(element, "realWorldHeight"))
    THEN element.realWorldWidth.n * element.realWorldHeight.n
    ELSE 0

\* the sum of a sequence of numbers
RECURSIVE Sum(_)
Sum(ns) == IF Len(ns) = 0 THEN 0 ELSE ns[1] + Sum(Tail(ns))

calculateProjectStatistics(elements) ==
    LET plants == CountOfType(elements, {Str("plant")})
        averageSpacing == Sum([i \in 1..Len(elements.a) |-> spacingOf(elements.a[i])])
    IN  [t |-> "obj",
         total |-> Num(Len(elements.a)),
         plants |-> Num(plants),
         terrain |-> Num(CountOfType(elements, {Str("terrain")})),
         structures |-> Num(CountOfType(elements, {Str("structure")})),
         shapes |-> Num(CountOfType(elements, {Str("rectangle"), Str("circle")})),
         selected |-> Num(Cardinality({i \in 1..Len(elements.a) : ~Falsy(Get(elements.a[i], "selected"))})),
         totalArea |-> Num(Sum([i \in 1..Len(elements.a) |-> areaOf(elements.a[i])])),
         averageSpacing |-> IF plants > 0 THEN Ratio(averageSpacing, plants) ELSE Ratio(averageSpacing, 1)]

\* elements given to calculateProjectStatistics
StatElements ==
    {PlantElement(Tomate(spacing)) : spacing \in {"1x1m", "30x30cm", "0.5x1.5m", "1x2cm", "50cm", "2m", "0.5m", "1x1"}}
    \cup {Without(PlantElement(Null), "plant"),
          Put(Rect(1), "plant", Tomate("1x1m")),
          Rect(1),
          Put(Put(TerrainElement(5), "realWorldWidth", Num(4)), "realWorldHeight", Num(5)),
          Put(StructureElement(9), "selected", Bool(TRUE))}

StatLists == UNION {[1..n -> StatElements] : n \in 0..MaxStatElements}

CalculateProjectStatistics(elements) ==
    /\ op' = "calculateProjectStatistics"
    /\ arg' = Arr(elements)
    /\ env' = NoEnv
    /\ attempted' = <<>>
    /\ ret' = calculateProjectStatistics(Arr(elements))
    /\ UNCHANGED <<autoSaveVars, exportVars, localStorage, DEFAULT_PREFERENCES, callerRef, firstPrefs, saves>>

InitStatistics ==
    /\ localStorage = EmptyStore
    /\ Quiet
    /\ saves = -1

NextStatistics == \E elements \in StatLists : CalculateProjectStatistics(elements)

SpecStatistics == InitStatistics /\ [][NextStatistics]_vars

---------------------------------------------------------------------------
(* Properties *)

\* the project held by the current-project slot
Stored == localStorage.CURRENT_PROJECT.v

Saved == op = "saveCurrentProject" /\ ret = Bool(TRUE)

\* C1: starting from an empty store, after 51 successful saves of distinct valid
\* projects the history has exactly 50 entries, the first one derived from the
\* 51st save, and the entry of the 1st save is gone.
C1_HistoryBound ==
    saves = 51 =>
        LET history == getProjectHistory(localStorage)
        IN  /\ history.t = "arr"
            /\ Len(history.a) = 50
            /\ history.a[1].timestamp = Num(51)
            /\ \A i \in 1..Len(history.a) : history.a[i].timestamp # Num(1)

\* validateCanvasState(p.elements, p.canvasSize) accepts p
PassesValidator(p) ==
    LET r == validateCanvasState(Get(p, "elements"), Get(p, "canvasSize"), [t |-> "obj"])
    IN  ~r.threw /\ r.val.isValid

\* a project with every required field, of the right type, and finite canvas numbers
WellFormed(p) ==
    /\ validateProjectData(p)
    /\ Get(p, "metadata").t = "obj"
    /\ isFinite(p.canvasSize.width) /\ isFinite(p.canvasSize.height)

\* C2: saveCurrentProject rejects, with failure and without writing, every
\* (well-formed) project the Validator rejects, so the project stored by a
\* successful save passes validateCanvasState.
C2_SavedPassesValidator ==
    (op = "saveCurrentProject" /\ WellFormed(arg)) =>
        /\ ~PassesValidator(arg) => ret = Bool(FALSE)
        /\ ret = Bool(TRUE) => PassesValidator(Stored)

\* C3: whenever saveCurrentProject returns success, the stored project's
\* metadata.elementsCount equals the length of its elements, whatever count the
\* caller supplied.
C3_CountRewritten ==
    Saved =>
        /\ localStorage.CURRENT_PROJECT.k = "json"
        /\ Stored.metadata.elementsCount = Num(Len(Stored.elements.a))
        /\ Stored.elements = Stringify(arg.elements)

\* C3 witness: a successful save of a project whose elementsCount was wrong
C3_Witness ==
    /\ Saved
    /\ arg.metadata.elementsCount # Num(Len(arg.elements.a))
    /\ Len(arg.elements.a) > 0

\* the structural failures of a ProjectData: a required field missing, canvasSize
\* width or height not a number, elements not a sequence, timestamp not a number
\* greater than 0, metadata missing
FailsStructuralCheck(p) ==
    \/ p.t # "obj"
    \/ \E f \in {"version", "timestamp", "canvasSize", "elements", "selectedTool"} : ~HasProp(p, f)
    \/ Get(p, "canvasSize").t # "obj"
    \/ typeof(Get(p.canvasSize, "width")) # "number"
    \/ typeof(Get(p.canvasSize, "height")) # "number"
    \/ p.elements.t # "arr"
    \/ ~(typeof(p.timestamp) = "number" /\ NumGt(p.timestamp, 0))
    \/ ~HasProp(p, "metadata")

\* C4: a save of a project failing the structural check returns failure, does
\* not throw, and leaves every slot as it was.
C4_StructuralFailureWritesNothing ==
    [][(op' = "saveCurrentProject" /\ FailsStructuralCheck(arg'))
          => (ret' = Bool(FALSE) /\ localStorage' = localStorage)]_vars

\* C5: once validation has passed, the project write, the timestamp write and
\* the history append are all attempted, and the result is the outcome of the
\* project write alone: when the project write succeeds the call returns
\* success, whatever the later writes do.
C5_AllWritesAttempted ==
    (/\ op = "saveCurrentProject"
     /\ WellFormed(arg)
     /\ "CURRENT_PROJECT" \notin env.throws) =>
        /\ attempted = <<"CURRENT_PROJECT", "LAST_SAVE", "addToProjectHistory">>
        /\ ret = Bool(TRUE)

\* the required fields of a ProjectData and their types, as the data model lists them
MeetsDataModel(v) ==
    /\ v.t = "obj"
    /\ typeof(Get(v, "version")) = "string"
    /\ typeof(Get(v, "timestamp")) = "number" /\ NumGt(v.timestamp, 0)
    /\ typeof(Get(v, "lastModified")) = "string"
    /\ Get(v, "canvasSize").t = "obj"
    /\ typeof(Get(v.canvasSize, "width")) = "number"
    /\ typeof(Get(v.canvasSize, "height")) = "number"
    /\ Get(v, "elements").t = "arr"
    /\ typeof(Get(v, "selectedTool")) = "string"
    /\ Get(v, "metadata").t = "obj"

\* C6: getCurrentProject leaves storage alone, does not throw, and returns the
\* stored value only when it has the required fields of a ProjectData with
\* their types; otherwise (missing, not JSON, failing the check) it returns absent.
C6_OnlyWellFormedReturned ==
    [][op' = "getCurrentProject" =>
          /\ localStorage' = localStorage
          /\ ret' # Thrown
          /\ ret' = IF localStorage.CURRENT_PROJECT.k = "json" /\ MeetsDataModel(Stored)
                    THEN Stored ELSE Null]_vars

\* C7: getProjectHistory returns a sequence whatever the history slot holds: the
\* stored entries for a JSON array, the empty sequence otherwise; never throws.
C7_HistoryIsSequence ==
    op = "getProjectHistory" =>
        /\ ret # Thrown
        /\ ret.t = "arr"
        /\ ret = IF localStorage.PROJECT_HISTORY.k = "json" /\ localStorage.PROJECT_HISTORY.v.t = "arr"
                 THEN localStorage.PROJECT_HISTORY.v ELSE Arr(<<>>)

\* s with its i-th item taken out
RemoveAt(s, i) == SubSeq(s, 1, i - 1) \o SubSeq(s, i + 1, Len(s))

\* C8: on a history that is a sequence of entries and a substrate that takes the
\* write, deleteProjectFromHistory(id) fails exactly when no entry has that id,
\* leaving the slot unchanged; on success the new history is the old one with
\* exactly one entry removed, the others in their order.
C8_DeletesExactlyOne ==
    [][(/\ op' = "deleteProjectFromHistory"
        /\ env'.throws = {}
        /\ getProjectHistory(localStorage).t = "arr")
          => LET old == getProjectHistory(localStorage).a
                 new == getProjectHistory(localStorage').a
             IN  /\ (ret' = Bool(FALSE)) <=> (\A i \in 1..Len(old) : old[i].id # arg')
                 /\ ret' = Bool(FALSE) => localStorage' = localStorage
                 /\ ret' = Bool(TRUE) =>
                       /\ Len(new) = Len(old) - 1
                       /\ \E i \in 1..Len(old) : new = RemoveAt(old, i)]_vars

PreferenceKeys == (DOMAIN DEFAULT_PREFERENCES_LITERAL) \ {"t"}

\* C9: with the defaults as written in the source, getUserPreferences always
\* returns a value with every key present and autoSaveInterval a number > 0.
C9_PreferencesValid ==
    (op = "getUserPreferences" /\ DEFAULT_PREFERENCES = DEFAULT_PREFERENCES_LITERAL) =>
        /\ \A key \in PreferenceKeys : HasProp(ret, key)
        /\ typeof(ret.autoSaveInterval) = "number"
        /\ NumGt(ret.autoSaveInterval, 0)

\* C10: a getUserPreferences call returns a value structurally equal to the one
\* returned by the first call since the last saveUserPreferences, whatever the
\* caller did with that value in between.
C10_GetIsIdempotent ==
    op = "getUserPreferences" => ret = firstPrefs

\* C11: when clearAllData has returned success every key of the store is gone
\* and the four readers give absent, the empty sequence, the defaults and absent;
\* when a removal raised it has returned failure; it never throws.
C11_ClearedStoreReadsEmpty ==
    op = "clearAllData" =>
        /\ ret \in {Bool(TRUE), Bool(FALSE)}
        /\ env.throws # {} => ret = Bool(FALSE)
        /\ ret = Bool(TRUE) =>
              /\ \A key \in STORAGE_KEYS : localStorage[key] = Missing
              /\ getCurrentProject(localStorage) = Null
              /\ getProjectHistory(localStorage) = Arr(<<>>)
              /\ getUserPreferences(localStorage, DEFAULT_PREFERENCES).val = DEFAULT_PREFERENCES_LITERAL
              /\ getLastSaveTime(localStorage) = Null

\* C12: for the one AutoSave instance at most one periodic timer is live, it is
\* the one the instance holds, and a tick is always a tick of that timer, never
\* of one a later start superseded.
C12_AtMostOneTimer ==
    /\ Cardinality(timers) <= 1
    /\ timers \subseteq {autoSave.interval}
    /\ op = "tick" => env.timer = autoSave.interval

\* C12 witness: a tick after a start that was issued while a timer was live.
C12_Witness ==
    /\ op = "tick"
    /\ issued >= 2
    /\ registered.by = "start"
    /\ env.timer = issued

\* the project passed to saveCurrentProject is the registered one (the save
\* assigns lastModified and elementsCount on it, nothing else)
SameProject(p, q) == p.t = "obj" /\ q.t = "obj" /\ p.timestamp = q.timestamp /\ p.elements = q.elements

\* C13: every tick makes exactly one saveCurrentProject call, with the project
\* last registered by start or updateProject, so ticks and save invocations
\* stay equal; updateProject swaps the reference and leaves the timer alone.
C13_OneSavePerTick ==
    [][/\ ticks' = invocations'
       /\ op' = "tick" /\ ticks' # ticks =>
             /\ invocations' = invocations + 1
             /\ SameProject(arg', registered.project)
             /\ SameProject(arg', autoSave.projectData)
       /\ op' = "updateProject" =>
             /\ timers' = timers
             /\ issued' = issued
             /\ autoSave'.interval = autoSave.interval
             /\ autoSave'.projectData = arg']_vars

\* C13 witness: the third tick, saving a project registered by updateProject.
C13_Witness ==
    /\ op = "tick"
    /\ ticks = 3
    /\ invocations = 3
    /\ registered.by = "updateProject"
    /\ issued = 1

\* C14: stop leaves no timer live, so while the instance is stopped no tick runs
\* and no save is invoked, whatever updateProject does; stop on a stopped (or
\* never started) instance changes nothing.
C14_StopCancels ==
    [][/\ op' = "stop" => autoSave'.interval = 0 /\ timers' = {} /\ ret' # Thrown
       /\ op' = "stop" /\ autoSave.interval = 0 =>
             UNCHANGED <<autoSave, timers, issued, ticks, invocations, localStorage>>
       /\ autoSave.interval = 0 => ticks' = ticks /\ invocations' = invocations]_vars

\* C14 witness: stopped after ticks have saved, with an updateProject since.
C14_Witness ==
    /\ op = "updateProject"
    /\ autoSave.interval = 0
    /\ timers = {}
    /\ invocations > 0

\* the number of elements of E whose type is one of `types`
Tally(E, types) == Num(Cardinality({i \in 1..Len(E.a) : E.a[i].type \in types}))

\* C15: importing the JSON text of createExportData(E, C), for E a list of
\* elements satisfying the DrawingElement invariants, returns a document whose
\* totalElements is the length of E and whose category counts are the tally of E
\* by type, also when an element carries only some optional dimension fields.
C15_RoundTrip ==
    (op = "importProjectFromJSON" /\ env.source.t = "obj") =>
        LET E == env.source.elements
        IN  /\ ret # Null
            /\ ret.projectInfo.totalElements = Num(Len(E.a))
            /\ ret.projectInfo.categories.plants = Tally(E, {Str("plant")})
            /\ ret.projectInfo.categories.terrain = Tally(E, {Str("terrain")})
            /\ ret.projectInfo.categories.structures = Tally(E, {Str("structure")})
            /\ ret.projectInfo.categories.shapes = Tally(E, {Str("rectangle"), Str("circle")})

\* v, when present, is a finite number that is not negative
DimensionOk(v) == Defined(v) => (typeof(v) = "number" /\ isFinite(v) /\ ~NumLt(v, 0))

\* the element-level checks of the Validator
ElementChecks(element) ==
    /\ typeof(element) = "object" /\ ~Falsy(element)
    /\ Get(element, "type") \in exportValidTypes
    /\ isFinite(Get(element, "x")) /\ isFinite(Get(element, "y"))
    /\ ~AbsGt(element.x, 100000) /\ ~AbsGt(element.y, 100000)
    /\ DimensionOk(Get(element, "width"))
    /\ DimensionOk(Get(element, "height"))
    /\ DimensionOk(Get(element, "radius"))

\* every check an imported document has to pass
DocumentChecks(data) ==
    /\ typeof(data) = "object" /\ ~Falsy(data)
    /\ \A i \in 1..Len(exportRequiredFields) : HasProp(data, exportRequiredFields[i])
    /\ typeof(data.projectInfo) = "object" /\ ~Falsy(data.projectInfo)
    /\ LET r == validateCanvasSize(Get(data.projectInfo, "canvasSize"), [t |-> "obj"])
       IN  ~r.threw /\ r.val.isValid
    /\ data.elements.t = "arr"
    /\ \A i \in 1..Len(data.elements.a) : ElementChecks(data.elements.a[i])

\* C16: importProjectFromJSON returns a document only for a JSON text whose
\* document has the required fields, a valid canvas size and elements that all
\* pass the element-level checks; for any other text it returns absent.
C16_ImportRejectsInvalid ==
    (op = "importProjectFromJSON" /\ ret # Null) =>
        /\ arg.k = "json"
        /\ ret = arg.v
        /\ DocumentChecks(arg.v)

\* C17: importProjectFromJSON leaves every slot of the store as it was, whether
\* it accepts the text or rejects it.
C17_ImportLeavesStore ==
    [][op' = "importProjectFromJSON" => localStorage' = localStorage]_vars

\* C17 witness: the malformed document {"foo": "bar"} was rejected on a store
\* that holds a current project.
C17_Witness ==
    /\ op = "importProjectFromJSON"
    /\ arg = Json([t |-> "obj", foo |-> Str("bar")])
    /\ ret = Null
    /\ localStorage.CURRENT_PROJECT = Json(Stringify(Base))
    /\ localStorage.LAST_SAVE = DecimalText(1)

\* C18: createExportData returns the same value for the same elements,
\* canvasSize and name whenever it is invoked, and none of its output elements
\* carries the selected flag.
C18_ExportDeterministic ==
    op = "createExportData" =>
        /\ \A now \in ExportTimes :
              createExportData(arg.elements, arg.canvasSize, arg.projectName, now) = ret
        /\ \A i \in 1..Len(ret.elements.a) : ~HasProp(ret.elements.a[i], "selected")

\* C19: with the download machinery available, exportProjectAsJSON downloads
\* exactly one document, the JSON text of createExportData of its arguments, and
\* ends with the success toast.
C19_ExportDownloadsOnce ==
    (op = "exportProjectAsJSON" /\ env.available) =>
        /\ toast = "success"
        /\ downloads = <<Json(Stringify(createExportData(arg.elements, arg.canvasSize,
                                                         arg.projectName, env.now)))>>

\* C20: every Plant, Terrain, Structure and DrawingElement built to satisfy the
\* data model is accepted by its validator; for DrawingElement that is so for
\* each of the five element types and for every numeric id.
C20_ValidAccepted ==
    /\ (op = "validatePlant" /\ arg \in ValidPlants) => ret.isValid
    /\ (op = "validateTerrain" /\ arg \in ValidTerrains) => ret.isValid
    /\ (op = "validateStructure" /\ arg \in ValidStructures) => ret.isValid
    /\ (op = "validateDrawingElement" /\ arg \in ValidDrawingElements) => ret.isValid

\* the fields an error message names
ErrorFields(error) ==
    CASE error = "Plant color must be a valid hex color (e.g., #FF6B6B)" -> {"color"}
      [] error = "Terrain color must be a valid hex color (e.g., #8B4513)" -> {"color"}
      [] error = "Structure color must be a valid hex color (e.g., #696969)" -> {"color"}
      [] error = "Invalid spacing format. Use formats like 1x1m, 30x30cm, 50cm, or 2m" -> {"spacing"}
      [] error = "Structure width must be between 0.1 and 100 meters" -> {"width"}
      [] error = "Structure height must be between 0.1 and 100 meters" -> {"height"}
      [] error = "Brush thickness must be between 1 and 100 pixels" -> {"brushThickness"}
      [] error = "Element coordinates are out of reasonable bounds" -> {"x", "y"}
      [] error = "Element width must be a valid positive number" -> {"width"}
      [] error = "Element height must be a valid positive number" -> {"height"}
      [] error = "Element radius must be a valid positive number" -> {"radius"}
      [] OTHER -> {}

\* values breaking exactly one invariant of their domain type, with the field broken
OneInvariantBroken ==
    {[op |-> "validatePlant", value |-> [Tomate("2m") EXCEPT !.color = Str("#GGGGGG")], field |-> "color"],
     [op |-> "validatePlant", value |-> Tomate("1x1"), field |-> "spacing"],
     [op |-> "validateStructure", value |-> Galpao(Size(Num(0), Num(4))), field |-> "width"],
     [op |-> "validateStructure", value |-> Galpao(Size(Dec(1), Num(4))), field |-> "width"],
     [op |-> "validateStructure", value |-> Galpao(Size(Num(5), Num(101))), field |-> "height"],
     [op |-> "validateTerrain", value |-> [Solo EXCEPT !.brushThickness = Num(0)], field |-> "brushThickness"],
     [op |-> "validateTerrain", value |-> [Solo EXCEPT !.brushThickness = Num(101)], field |-> "brushThickness"],
     [op |-> "validateTerrain", value |-> [Solo EXCEPT !.brushThickness = Dec(15)], field |-> "brushThickness"],
     [op |-> "validateDrawingElement", value |-> [Rect(2) EXCEPT !.x = Num(10000000)], field |-> "x"],
     [op |-> "validateDrawingElement", value |-> [Rect(2) EXCEPT !.width = Num(-1)], field |-> "width"],
     [op |-> "validateDrawingElement", value |-> [Circle(3) EXCEPT !.radius = NaN], field |-> "radius"],
     [op |-> "validateDrawingElement", value |-> Put(PlantElement(Tomate("2m")), "width", Num(-1)),
      field |-> "width"],
     [op |-> "validateDrawingElement", value |-> Put(PlantElement(Tomate("2m")), "radius", Infinity),
      field |-> "radius"],
     [op |-> "validateDrawingElement", value |-> Put(StructureElement(9), "height", NaN), field |-> "height"]}

\* C21: a value violating exactly one invariant of its domain type is rejected by
\* the corresponding validator, with isValid false and an error naming the
\* violated field.
C21_OneViolationRejected ==
    \A broken \in OneInvariantBroken :
        (op = broken.op /\ arg = broken.value) =>
            /\ ~ret.isValid
            /\ broken.field \in ErrorFields(ret.error)

\* inputs that are not of the shape their validator expects
ValidatorOps ==
    {"validatePlant", "validateTerrain", "validateStructure", "validateDrawingElement",
     "validateCanvasSize", "validateElementsArray", "validateCanvasState"}

MalformedSize(size) == size.t # "obj" \/ typeof(Get(size, "width")) # "number" \/ typeof(Get(size, "height")) # "number"

MalformedInput ==
    CASE op \in {"validatePlant", "validateTerrain", "validateStructure", "validateDrawingElement"} ->
            arg \in {Null, Undef, Str("tomate"), Num(5), Without(Tomate("2m"), "id"), Without(Solo, "name"),
                     Galpao(Null), Galpao(Size(Str("5"), Num(4))), Without(Rect(2), "id"),
                     PlantElement(Num(5)), PlantElement([t |-> "obj"]),
                     Put(TerrainElement(5), "terrain", Str("solo"))}
      [] op = "validateCanvasSize" -> MalformedSize(arg.size)
      [] op = "validateElementsArray" -> arg.elements.t # "arr"
      [] op = "validateCanvasState" -> MalformedSize(arg.size) \/ arg.elements.t # "arr"
      [] OTHER -> FALSE

\* C22: no validator throws: for every input and every options value it returns
\* a ValidationResult, with isValid false and a non-empty error when the input
\* is malformed.
C22_ValidatorsNeverThrow ==
    op \in ValidatorOps =>
        /\ ret # Thrown
        /\ MalformedInput => (~ret.isValid /\ ret.error # "")

\* C25: immediately after saveCurrentProject(p) returns success, getCurrentProject
\* returns a project (not absent) whose elements and canvasSize equal those of p
\* and whose metadata.elementsCount is the length of p's elements, for every p
\* the save accepts, one with a NaN or Infinity canvas size or timestamp included.
C25_SaveThenGet ==
    Saved =>
        LET project == getCurrentProject(localStorage)
        IN  /\ project # Null
            /\ project.elements = arg.elements
            /\ project.canvasSize = arg.canvasSize
            /\ project.metadata.elementsCount = Num(Len(arg.elements.a))

\* the text a save of project p at clock reading now writes
AsWritten(p, now) ==
    Json(Stringify([p EXCEPT !.lastModified = toISOString(now),
                             !.metadata = Put(p.metadata, "elementsCount", Num(Len(p.elements.a)))]))

\* C23: over any interleaving of manual saves and AutoSave ticks, the
\* current-project slot holds the project written by the most recent successful
\* save of either kind: a successful save or tick leaves exactly its own project
\* there (a tick the tracked one), and an unsuccessful one leaves the slot as the
\* last successful save wrote it.
C23_LastWriterWins ==
    [][op' \in {"saveCurrentProject", "tick"} =>
          IF ret' = Bool(TRUE)
          THEN /\ localStorage'.CURRENT_PROJECT = AsWritten(arg', env'.now)
               /\ op' = "tick" => arg' = autoSave.projectData
          ELSE localStorage'.CURRENT_PROJECT = localStorage.CURRENT_PROJECT]_vars

\* whether an element carries a plant whose spacing is parseable under the data
\* model's formats, and that spacing in half-units of 1/10000 m (a single number
\* counts for both sides)
HasParseableSpacing(element) ==
    /\ Get(element, "plant").t = "obj"
    /\ typeof(Get(element.plant, "spacing")) = "string"
    /\ spacingPattern(element.plant.spacing.s)

ParsedSpacing(element) ==
    LET cs == Chars(element.plant.spacing.s)
        n == Len(cs)
        e == IF cs[n - 1] = "c" THEN n - 1 ELSE n
        scale == IF e = n THEN 100 ELSE 1
        x == CHOOSE k \in 1..e : cs[k] = "x"
    IN  IF IsNumber(cs, 1, e) THEN 2 * scale * parseFloat(cs, 1, e)
        ELSE scale * (parseFloat(cs, 1, x) + parseFloat(cs, x + 1, e))

\* C24: averageSpacing is the mean spacing in meters over exactly the elements
\* that carry a plant with a parseable spacing ("<num>m", "<num>cm",
\* "<num>x<num>m", "<num>x<num>cm"): each of them is in the sum and the divisor
\* is their number, not the number of plant-typed elements.
C24_AverageSpacing ==
    op = "calculateProjectStatistics" =>
        LET with == SelectSeq(arg.a, HasParseableSpacing)
        IN  Len(with) > 0 =>
                ret.averageSpacing.num * Len(with)
                    = Sum([i \in 1..Len(with) |-> ParsedSpacing(with[i])]) * ret.averageSpacing.den

====
